---- MODULE Spec2Model ----
(***************************************************************************)
(* Resilience layer of the trading bot: circuit breaker and retry manager  *)
(* (src/circuit_breaker.py, src/connection_config.py), the reconnecting    *)
(* stream manager (src/enhanced_websocket_manager.py) and the proxied      *)
(* WebSocket client (src/patch_websocket_proxy.py).                        *)
(*                                                                         *)
(* Spec      : one CircuitBreaker driven by direct calls of can_execute,   *)
(*             record_success, record_failure and reset, with a clock;     *)
(*             `history` logs every call since construction.               *)
(* SpecRetry : one RetryManager.execute_with_retry call, stepped from one   *)
(*             await to the next, against a breaker that other callers     *)
(*             also use directly between its steps; `last_call` keeps the  *)
(*             latest call made on the breaker.                            *)
(* SpecDelay    : RetryPolicy.get_delay applied to attempts 0, 1, 2, ...   *)
(* SpecRegistry : get_circuit_breaker / get_retry_manager lookups on the   *)
(*             CIRCUIT_BREAKERS registry, breakers held by identity.       *)
(* SpecWS    : one EnhancedWebSocketManager, its stream task stepped from  *)
(*             await to await, with disconnect() from outside.             *)
(* SpecProxy : one WebSocketReconnectManager after a successful connect,   *)
(*             its client's receive, heartbeat and health-check loops and  *)
(*             the reconnect task, over a clock in whole seconds.          *)
(* SpecConc  : two execute_with_retry calls as two tasks on one breaker.   *)
(* SpecBackoff  : the stream loop through consecutive reconnect attempts   *)
(*             with the default config, connect() taken by its outcome.    *)
(* SpecHeartbeat : SpecProxy on a transport whose only frames are pongs.   *)
(* SpecReconnect : one WebSocketReconnectManager with connect() and        *)
(*             disconnect() of its owner, the client taken by outcome.     *)
(* SpecMonitor  : the manager with its stream, health-monitor and          *)
(*             heartbeat tasks and disconnect() stepped await by await;    *)
(*             connect_func is taken to succeed.                           *)
(***************************************************************************)
EXTENDS Integers, Sequences, FiniteSets

\* ---------------------------------------------------------------- bounds
MaxThreshold == 3
MaxTimeout == 2
MaxTime == 3
MaxCalls == 5
MaxAttempts == 3
MaxExtCalls == 2
MaxDelay == 4
MaxBase == 3
MaxDelayAttempts == 4
MaxRegistryOps == 3
MaxReconnectCap == 2
MaxConnects == 3
MaxCircuitWaits == 1
MaxProxyTime == 100
MaxFrames == 2
MaxInitialFailures == 1
MaxMonitorTime == 60
MaxMessages == 1
MaxDisconnects == 1
MaxConcAttempts == 2
MaxBackoffConnects == 11
MaxConnectCalls == 2
MaxSignals == 2

\* ------------------------------------------------------- CircuitState
CLOSED == "closed"
OPEN == "open"
HALF_OPEN == "half_open"
CircuitState == {CLOSED, OPEN, HALF_OPEN}

\* Optional[datetime] = None: a value no timestamp equals.
None == -1

\* ConnectionConfig defaults that no environment variable overrides.
CIRCUIT_BREAKER_THRESHOLD == 5
CIRCUIT_BREAKER_TIMEOUT == 300

\* ConnectionConfig defaults of the WebSocket backoff.
WS_MAX_RECONNECT_ATTEMPTS == 10
WS_INITIAL_BACKOFF == 2
WS_MAX_BACKOFF == 120

\* patch_websocket_proxy.py: heartbeat and reconnect settings (defaults).
HEARTBEAT_INTERVAL == 15
HEARTBEAT_TIMEOUT == 30
MAX_RECONNECT_ATTEMPTS == 10
INITIAL_RECONNECT_DELAY == 1
MAX_RECONNECT_DELAY == 60
IDLE_TIMEOUT == 60
\* _health_check_loop: await asyncio.sleep(5) and the `> 5` test after it.
PONG_GRACE == 5
WS_HEALTH_CHECK_INTERVAL == 20
SEND_HEARTBEAT_INTERVAL == 30

\* ---------------------------------------------------- ConnectionState
DISCONNECTED == "disconnected"
CONNECTING == "connecting"
CONNECTED == "connected"
RECONNECTING == "reconnecting"
FAILED == "failed"
CIRCUIT_OPEN == "circuit_open"
ConnectionState ==
    {DISCONNECTED, CONNECTING, CONNECTED, RECONNECTING, FAILED, CIRCUIT_OPEN}

\* The asyncio tasks that can each make one execute_with_retry call; a
\* specification takes its callers among them (DOMAIN task).
Tasks == {"t1", "t2"}

VARIABLES
    cb,         \* the CircuitBreaker object (its dataclass fields)
    now,        \* the clock read by datetime.now() and the event loop
    history,    \* Spec: the calls made on cb since construction
    last_call,  \* the latest call made on cb
    attached,   \* RetryManager.circuit_breaker is not None
    max_attempts, \* RetryManager.policy.max_attempts
    task,       \* per task: the locals of its execute_with_retry call
    ext_calls,  \* SpecRetry: number of direct calls on cb by other users
    policy,     \* SpecDelay: a RetryPolicy object (its dataclass fields)
    delays,     \* SpecDelay: get_delay(0), get_delay(1), ... as computed
    heap,       \* SpecRegistry: the CircuitBreaker objects, by identity
    CIRCUIT_BREAKERS, \* SpecRegistry: the module's dict, name -> object
    handles,    \* SpecRegistry: what each lookup made so far returned
    reg_last,   \* SpecRegistry: the latest breaker call made via a handle
    reg_ops,    \* SpecRegistry: number of breaker calls made via handles
    ws,         \* SpecWS: the EnhancedWebSocketManager object (its fields)
    stream,     \* SpecWS: the task running _stream_with_reconnect
    wslog,      \* SpecWS: what the manager has done so far
    monitor,    \* SpecMonitor: the manager's other tasks and disconnect() calls
    client,     \* SpecProxy: the manager's current ProxyWebSocketClient
    mgr,        \* SpecProxy: the WebSocketReconnectManager (its fields)
    loops,      \* SpecProxy: the client's three loops and _do_reconnect
    plog        \* SpecProxy: what the transport and the loops have done

retryVars == <<attached, max_attempts, task, ext_calls>>
coreVars == <<cb, now, history, last_call, retryVars>>
delayVars == <<policy, delays>>
registryVars == <<heap, CIRCUIT_BREAKERS, handles, reg_last, reg_ops>>
\* What the breaker and retry specifications leave alone.
wsVars == <<ws, stream, wslog, monitor>>
proxyVars == <<client, mgr, loops, plog>>
laterVars == <<delayVars, registryVars, wsVars, proxyVars>>
vars == <<cb, now, history, last_call, attached, max_attempts, task, ext_calls,
          laterVars>>

\* ------------------------------------------------------ CircuitBreaker
\* A freshly constructed breaker: the dataclass defaults.
CircuitBreaker(threshold, tmo) ==
    [ failure_threshold |-> threshold,
      timeout           |-> tmo,
      state             |-> CLOSED,
      failure_count     |-> 0,
      last_failure_time |-> None,
      last_success_time |-> None,
      total_requests    |-> 0,
      total_failures    |-> 0,
      total_successes   |-> 0 ]

\* Mutation of should_attempt_reset: due as soon as the timeout is reached.
should_attempt_reset_at_timeout(b, t) ==
    IF b.last_failure_time = None
    THEN TRUE
    ELSE t - b.last_failure_time >= b.timeout

\* elapsed > timedelta(seconds=self.timeout); no failure yet counts as due.
\* A datetime is always truthy, so only None takes the first branch.
should_attempt_reset(b, t) ==
    IF b.last_failure_time = None
    THEN TRUE
    ELSE t - b.last_failure_time > b.timeout

\* What can_execute returns.
can_execute_ret(b, t) ==
    CASE b.state = CLOSED    -> TRUE
      [] b.state = OPEN      -> should_attempt_reset(b, t)
      [] b.state = HALF_OPEN -> TRUE
      [] OTHER               -> FALSE

\* Mutation of can_execute: a refused call is not counted.
can_execute_counts_admitted(b, t) ==
    [ b EXCEPT !.total_requests = IF b.state = OPEN /\ ~should_attempt_reset(b, t)
                                  THEN @
                                  ELSE @ + 1,
               !.state = IF b.state = OPEN /\ should_attempt_reset(b, t)
                         THEN HALF_OPEN
                         ELSE @ ]

\* The breaker after can_execute.
can_execute(b, t) ==
    [ b EXCEPT !.total_requests = @ + 1,
               !.state = IF b.state = OPEN /\ should_attempt_reset(b, t)
                         THEN HALF_OPEN
                         ELSE @ ]

\* Mutation of record_success: the failure counter is not zeroed.
record_success_keeps_count(b, t) ==
    [ b EXCEPT !.last_success_time = t,
               !.total_successes = @ + 1,
               !.state = IF b.state = HALF_OPEN THEN CLOSED ELSE @ ]

\* Mutation of record_success: a success in HalfOpen does not close.
record_success_no_close(b, t) ==
    [ b EXCEPT !.failure_count = 0,
               !.last_success_time = t,
               !.total_successes = @ + 1 ]

\* Mutation of record_success: a success closes the breaker from any state.
record_success_closes_always(b, t) ==
    [ b EXCEPT !.failure_count = 0,
               !.last_success_time = t,
               !.total_successes = @ + 1,
               !.state = CLOSED ]

\* The breaker after record_success.
record_success(b, t) ==
    [ b EXCEPT !.failure_count = 0,
               !.last_success_time = t,
               !.total_successes = @ + 1,
               !.state = IF b.state = HALF_OPEN THEN CLOSED ELSE @ ]

\* Mutation of record_failure: opens one failure early.
record_failure_one_early(b, t) ==
    [ b EXCEPT !.failure_count = @ + 1,
               !.last_failure_time = t,
               !.total_failures = @ + 1,
               !.state = IF b.state = HALF_OPEN
                         THEN OPEN
                         ELSE IF b.failure_count + 1 >= b.failure_threshold - 1
                              THEN OPEN
                              ELSE @ ]

\* Mutation of record_failure: opens only above the threshold.
record_failure_above_threshold(b, t) ==
    [ b EXCEPT !.failure_count = @ + 1,
               !.last_failure_time = t,
               !.total_failures = @ + 1,
               !.state = IF b.state = HALF_OPEN
                         THEN OPEN
                         ELSE IF b.failure_count + 1 > b.failure_threshold
                              THEN OPEN
                              ELSE @ ]

\* Mutation of record_failure: no HalfOpen branch, the threshold decides.
record_failure_threshold_only(b, t) ==
    [ b EXCEPT !.failure_count = @ + 1,
               !.last_failure_time = t,
               !.total_failures = @ + 1,
               !.state = IF b.failure_count + 1 >= b.failure_threshold
                         THEN OPEN
                         ELSE @ ]

\* Mutation of record_failure: a failure that finds the breaker already
\* Open is not added to total_failures.
record_failure_uncounted_when_open(b, t) ==
    [ b EXCEPT !.failure_count = @ + 1,
               !.last_failure_time = t,
               !.total_failures = IF b.state = OPEN THEN @ ELSE @ + 1,
               !.state = IF b.state = HALF_OPEN
                         THEN OPEN
                         ELSE IF b.failure_count + 1 >= b.failure_threshold
                              THEN OPEN
                              ELSE @ ]

\* The breaker after record_failure.
record_failure(b, t) ==
    [ b EXCEPT !.failure_count = @ + 1,
               !.last_failure_time = t,
               !.total_failures = @ + 1,
               !.state = IF b.state = HALF_OPEN
                         THEN OPEN
                         ELSE IF b.failure_count + 1 >= b.failure_threshold
                              THEN OPEN
                              ELSE @ ]

\* The breaker after a manual reset.
reset(b) ==
    [ b EXCEPT !.state = CLOSED, !.failure_count = 0 ]

\* One entry of `history`: the call, what it returned, the state it found.
Call(op, ret) == [ op |-> op, ret |-> ret, pre |-> cb.state ]

\* Before any call.
NoCall == [ op |-> "none", ret |-> FALSE, pre |-> CLOSED ]

\* ---------------------------------------------------------------- clock
\* Time passes between two calls.
Tick ==
    /\ now < MaxTime
    /\ now' = now + 1
    /\ UNCHANGED <<cb, history, last_call, retryVars, laterVars>>

\* ---------------------------------------------------------- RetryPolicy
\* The dataclass defaults of RetryPolicy.
RetryPolicy ==
    [ max_attempts |-> 3, initial_delay |-> 1, max_delay |-> 60,
      exponential_base |-> 2 ]

RECURSIVE Pow(_, _)
Pow(x, n) == IF n = 0 THEN 1 ELSE x * Pow(x, n - 1)

Min(a, b) == IF a <= b THEN a ELSE b

\* Mutation of RetryPolicy_get_delay: the cap is left out.
get_delay_uncapped(p, attempt) ==
    p.initial_delay * Pow(p.exponential_base, attempt)

\* delay = initial_delay * (exponential_base ** attempt)
\* return min(delay, max_delay)
RetryPolicy_get_delay(p, attempt) ==
    Min(p.initial_delay * Pow(p.exponential_base, attempt), p.max_delay)

\* get_delay of the default policy, the one every RetryManager of the
\* repository is built with.
get_delay(attempt) == RetryPolicy_get_delay(RetryPolicy, attempt)

\* ------------------------------------------------ parts not under study
\* Each specification studies some of the objects; the others stay as
\* constructed.
CoreIdle ==
    /\ cb = CircuitBreaker(CIRCUIT_BREAKER_THRESHOLD, CIRCUIT_BREAKER_TIMEOUT)
    /\ now = 0
    /\ history = <<>>
    /\ last_call = NoCall
    /\ attached = FALSE
    /\ max_attempts = RetryPolicy.max_attempts
    /\ task = <<>>
    /\ ext_calls = 0

\* DEFAULT_RETRY_POLICY, get_delay not called.
DelayIdle ==
    /\ policy = RetryPolicy
    /\ delays = <<>>

\* The names the module registers when it is imported.
RegisteredNames == <<"polymarket_api", "websocket", "redis", "data_engine">>

\* CIRCUIT_BREAKERS as the module builds it: one fresh breaker per name.
RegistryIdle ==
    /\ heap = [ i \in 1..Len(RegisteredNames) |->
                  CircuitBreaker(CIRCUIT_BREAKER_THRESHOLD, CIRCUIT_BREAKER_TIMEOUT) ]
    /\ CIRCUIT_BREAKERS = [ n \in { RegisteredNames[i] : i \in 1..Len(RegisteredNames) } |->
                              CHOOSE i \in 1..Len(RegisteredNames) : RegisteredNames[i] = n ]
    /\ handles = {}
    /\ reg_last = [ name |-> "", op |-> "none" ]
    /\ reg_ops = 0

\* EnhancedWebSocketManager.__init__, for a config with the given
\* WS_MAX_RECONNECT_ATTEMPTS; the hooks are None until the owner sets them.
EnhancedWebSocketManager(max_reconnect) ==
    [ state                     |-> DISCONNECTED,
      reconnect_attempts        |-> 0,
      last_message_time         |-> None,
      connection_start_time     |-> None,
      total_connections         |-> 0,
      total_disconnections      |-> 0,
      total_errors              |-> 0,
      on_connected              |-> FALSE,
      on_error                  |-> FALSE,
      WS_MAX_RECONNECT_ATTEMPTS |-> max_reconnect ]

\* _stream_task is None: start_streaming was not called.
NoStream == [ pc |-> "none", wake_at |-> 0, connect_ret |-> FALSE ]

\* Nothing done yet. connects and func_calls count the connect() calls and
\* the connect_func invocations, the *_calls fields the hook invocations,
\* cap_failed the times _backoff_and_retry set FAILED, circuit_waits the
\* breaker-timeout sleeps of the stream loop; at_connect keeps what held
\* when the latest connect() call began and whether it set CONNECTING.
NoWsLog ==
    [ connects           |-> 0,
      func_calls         |-> 0,
      on_connected_calls |-> 0,
      on_error_calls     |-> 0,
      cap_failed         |-> 0,
      circuit_waits      |-> 0,
      at_connect         |-> [ total_connections  |-> 0,
                               on_connected_calls |-> 0,
                               func_calls         |-> 0,
                               can_execute        |-> FALSE,
                               connecting         |-> FALSE ] ]

\* A task that was not created, one asleep until `t`, one that is over.
NoTask == [ pc |-> "none", wake_at |-> 0 ]
Sleeping(t) == [ pc |-> "sleep", wake_at |-> t ]
TaskDone == [ pc |-> "done", wake_at |-> 0 ]

\* A disconnect() coroutine: not called, suspended in `await task` for
\* the i-th of the three tasks, suspended in the on_disconnected hook,
\* returned, or left by an exception.
NotCalled == [ pc |-> "idle", i |-> 0 ]
AwaitingTask(i) == [ pc |-> "await", i |-> i ]
InHook == [ pc |-> "hook", i |-> 0 ]
Returned == [ pc |-> "returned", i |-> 0 ]
Raised == [ pc |-> "raised", i |-> 0 ]

\* Who runs disconnect(): the manager's owner, or the health monitor.
Callers == {"owner", "health"}

\* _health_check_task and _heartbeat_task are None, disconnect() was not
\* called, on_disconnected is None. self_awaited: the health task has
\* awaited itself; c_future: asyncio runs its C implementation of Task and
\* Future. The rest logs: hook_calls the on_disconnected invocations of
\* each caller's latest disconnect(), disconnects the owner's calls,
\* forced the monitor's, connects_then the connect() count when the
\* monitor forced, cb_then the breaker when the owner's call began,
\* messages the update_last_message_time calls.
NoMonitor ==
    [ health          |-> NoTask,
      heartbeat       |-> NoTask,
      disc            |-> [ x \in Callers |-> NotCalled ],
      self_awaited    |-> FALSE,
      c_future        |-> TRUE,
      on_disconnected |-> FALSE,
      hook_calls      |-> [ x \in Callers |-> 0 ],
      disconnects     |-> 0,
      forced          |-> 0,
      connects_then   |-> 0,
      cb_then         |-> CircuitBreaker(CIRCUIT_BREAKER_THRESHOLD, CIRCUIT_BREAKER_TIMEOUT),
      messages        |-> 0 ]

\* A manager with the default cap exists and is not used.
WsIdle ==
    /\ ws = EnhancedWebSocketManager(WS_MAX_RECONNECT_ATTEMPTS)
    /\ stream = NoStream
    /\ wslog = NoWsLog
    /\ monitor = NoMonitor

\* ProxyWebSocketClient.__init__ followed by a connect() that succeeded at
\* time t: the fields as connect() leaves them. ws_open stands for
\* `self._ws is not None and not self._ws.closed`.
ProxyWebSocketClient(t) ==
    [ state                   |-> CONNECTED,
      is_active               |-> TRUE,
      ws_open                 |-> TRUE,
      released                |-> FALSE,
      last_ping_time          |-> t,
      last_pong_time          |-> t,
      last_message_time       |-> t,
      waiting_for_pong        |-> FALSE,
      total_disconnections    |-> 0,
      total_messages_received |-> 0,
      total_pings_sent        |-> 0,
      total_pongs_received    |-> 0 ]

\* WebSocketReconnectManager.__init__.
WebSocketReconnectManager ==
    [ reconnect_attempts |-> 0,
      is_reconnecting    |-> FALSE,
      should_reconnect   |-> TRUE ]

\* A loop that is not running, one asleep until `t`, and the receive loop
\* waiting for the next frame; `at` keeps a captured current_time.
LoopDone == [ pc |-> "done", wake_at |-> 0, at |-> 0 ]
Asleep(t) == [ pc |-> "sleep", wake_at |-> t, at |-> 0 ]
Receiving == [ pc |-> "receiving", wake_at |-> 0, at |-> 0 ]

\* The tasks connect() creates for a connection made at time t; no
\* _do_reconnect task exists.
ClientLoops(t) ==
    [ receive   |-> Receiving,
      heartbeat |-> Asleep(t + HEARTBEAT_INTERVAL),
      health    |-> Asleep(t + (IDLE_TIMEOUT \div 2)),
      reconnect |-> LoopDone ]

\* Nothing seen yet. unanswered is the time of the earliest ping after
\* which nothing has arrived (None when there is none), attempts_then the
\* manager's counter at that ping; the other fields count the frames
\* delivered, the _trigger_reconnect calls by cause, and the connections
\* made by _do_reconnect. closed_mid_stream: the receive loop of the client
\* ended on a close or error of the transport; stale_loops: the loops of
\* the previous client that had not ended when _do_reconnect connected.
\* received: the types of the frames the receive loops got, in order;
\* handled: for each handler invocation the position in `received` of the
\* frame it was given; at_connect: the handler invocations made before
\* the current client connected; last_data: when the current client got
\* its latest data frame (when it connected, if it got none); answered:
\* the pongs that arrived while a ping was waiting for one; established:
\* the connections the manager's connect() and _do_reconnect made;
\* connect_calls: the connect() calls of the manager's owner.
NoProxyLog ==
    [ unanswered     |-> None,
      attempts_then  |-> 0,
      frames         |-> 0,
      hb_timeouts    |-> 0,
      ping_failures  |-> 0,
      idle_timeouts  |-> 0,
      reconnects     |-> 0,
      closed_mid_stream |-> FALSE,
      stale_loops    |-> 0,
      received       |-> <<>>,
      handled        |-> <<>>,
      at_connect     |-> 0,
      last_data      |-> 0,
      answered       |-> 0,
      established    |-> 0,
      connect_calls  |-> 0 ]

\* No proxy client was made.
ProxyIdle ==
    /\ client = [ ProxyWebSocketClient(0) EXCEPT !.state = DISCONNECTED,
                                                 !.is_active = FALSE,
                                                 !.ws_open = FALSE ]
    /\ mgr = WebSocketReconnectManager
    /\ loops = [ ClientLoops(0) EXCEPT !.receive = LoopDone,
                                       !.heartbeat = LoopDone,
                                       !.health = LoopDone ]
    /\ plog = NoProxyLog

\* What is not the breaker or the retry manager, as constructed.
LaterIdle ==
    /\ DelayIdle
    /\ RegistryIdle
    /\ WsIdle
    /\ ProxyIdle

\* ------------------------------------------------------------ SpecDelay
\* A policy with whole-number fields of either sign, max_attempts left at
\* its default; get_delay is applied to attempt 0, 1, 2, ... in turn.
InitDelay ==
    /\ \E i \in -MaxDelay..MaxDelay, m \in -MaxDelay..MaxDelay, b \in 1..MaxBase :
            policy = [ RetryPolicy EXCEPT !.initial_delay = i,
                                          !.max_delay = m,
                                          !.exponential_base = b ]
    /\ delays = <<>>
    /\ CoreIdle
    /\ RegistryIdle
    /\ WsIdle
    /\ ProxyIdle

GetDelay ==
    /\ Len(delays) <= MaxDelayAttempts
    /\ delays' = Append(delays, RetryPolicy_get_delay(policy, Len(delays)))
    /\ UNCHANGED <<policy, coreVars, registryVars, wsVars, proxyVars>>

NextDelay == GetDelay

SpecDelay == InitDelay /\ [][NextDelay]_vars

\* --------------------------------------------------------- SpecRegistry
\* The names looked up: two the module registers, one it does not.
LookupNames == {"redis", "websocket", "clob_api"}

\* Mutation of get_circuit_breaker: a new breaker on every lookup.
get_circuit_breaker_fresh(reg, hp, name) ==
    [ heap     |-> Append(hp, CircuitBreaker(CIRCUIT_BREAKER_THRESHOLD,
                                             CIRCUIT_BREAKER_TIMEOUT)),
      registry |-> [ n \in DOMAIN reg \cup {name} |->
                       IF n = name THEN Len(hp) + 1 ELSE reg[n] ],
      obj      |-> Len(hp) + 1 ]

\* if name not in CIRCUIT_BREAKERS: CIRCUIT_BREAKERS[name] = CircuitBreaker(name)
\* return CIRCUIT_BREAKERS[name]
get_circuit_breaker(reg, hp, name) ==
    IF name \notin DOMAIN reg
    THEN [ heap     |-> Append(hp, CircuitBreaker(CIRCUIT_BREAKER_THRESHOLD,
                                                  CIRCUIT_BREAKER_TIMEOUT)),
           registry |-> [ n \in DOMAIN reg \cup {name} |->
                            IF n = name THEN Len(hp) + 1 ELSE reg[n] ],
           obj      |-> Len(hp) + 1 ]
    ELSE [ heap |-> hp, registry |-> reg, obj |-> reg[name] ]

\* circuit_breaker = get_circuit_breaker(name)
\* return RetryManager(policy=policy, circuit_breaker=circuit_breaker)
get_retry_manager(reg, hp, name) == get_circuit_breaker(reg, hp, name)

\* The breaker methods a holder of the object can call.
BreakerOps == {"can_execute", "record_success", "record_failure", "reset"}

apply_op(b, op, t) ==
    CASE op = "can_execute"    -> can_execute(b, t)
      [] op = "record_success" -> record_success(b, t)
      [] op = "record_failure" -> record_failure(b, t)
      [] op = "reset"          -> reset(b)

InitRegistry ==
    /\ RegistryIdle
    /\ CoreIdle
    /\ DelayIdle
    /\ WsIdle
    /\ ProxyIdle

\* A caller looks a breaker up by name and keeps what it got.
GetCircuitBreaker ==
    \E name \in LookupNames :
        LET r == get_circuit_breaker(CIRCUIT_BREAKERS, heap, name)
        IN  /\ heap' = r.heap
            /\ CIRCUIT_BREAKERS' = r.registry
            /\ handles' = handles \cup
                   {[ via |-> "get_circuit_breaker", name |-> name, obj |-> r.obj ]}
            /\ handles' # handles
            /\ UNCHANGED <<reg_last, reg_ops, coreVars, delayVars, wsVars, proxyVars>>

\* A caller asks for a retry manager by name and keeps it; the manager
\* holds the breaker it was given.
GetRetryManager ==
    \E name \in LookupNames :
        LET r == get_retry_manager(CIRCUIT_BREAKERS, heap, name)
        IN  /\ heap' = r.heap
            /\ CIRCUIT_BREAKERS' = r.registry
            /\ handles' = handles \cup
                   {[ via |-> "get_retry_manager", name |-> name, obj |-> r.obj ]}
            /\ handles' # handles
            /\ UNCHANGED <<reg_last, reg_ops, coreVars, delayVars, wsVars, proxyVars>>

\* The holder of a looked-up breaker, or a manager through its
\* circuit_breaker field, calls one of the breaker's methods.
HandleCall ==
    /\ reg_ops < MaxRegistryOps
    /\ \E h \in handles, op \in BreakerOps :
          /\ heap' = [ heap EXCEPT ![h.obj] = apply_op(@, op, now) ]
          /\ reg_last' = [ name |-> h.name, op |-> op ]
    /\ reg_ops' = reg_ops + 1
    /\ UNCHANGED <<CIRCUIT_BREAKERS, handles, coreVars, delayVars, wsVars, proxyVars>>

NextRegistry ==
    \/ GetCircuitBreaker
    \/ GetRetryManager
    \/ HandleCall

SpecRegistry == InitRegistry /\ [][NextRegistry]_vars

\* --------------------------------------------------------- RetryManager
\* The default retryable_exceptions tuple.
retryable_exceptions == {"TimeoutError", "ConnectionError", "OSError"}

\* What the operations of the model raise: two of the retryable kinds and
\* one kind that is not retryable.
ErrorKinds == {"TimeoutError", "ConnectionError", "ValueError"}

\* Exceptions are told apart by the task and the invocation that raised them.
Error(kind, t, n) == [ kind |-> kind, by |-> t, call |-> n ]
NoError == [ kind |-> "None", by |-> "", call |-> 0 ]
Value(t, n) == [ kind |-> "value", by |-> t, call |-> n ]

\* Exception(f"{operation_name}: Circuit breaker is OPEN - refusing request")
CircuitOpenError(t) == [ kind |-> "Exception: Circuit breaker is OPEN", by |-> t, call |-> 0 ]
\* Exception(f"{operation_name}: All retry attempts failed")
AllFailedError(t) == [ kind |-> "Exception: All retry attempts failed", by |-> t, call |-> 0 ]

\* The locals of one execute_with_retry call, before it starts.
\* outcomes, rec_success, rec_failure and admitted log what the call has
\* seen and done; the code keeps the rest.
NewCall ==
    [ pc             |-> "idle",
      attempt        |-> 0,
      calls          |-> 0,
      last_exception |-> NoError,
      result         |-> NoError,
      sleeps         |-> <<>>,
      wake_at        |-> 0,
      outcomes       |-> <<>>,
      rec_success    |-> 0,
      rec_failure    |-> 0,
      admitted       |-> FALSE ]

\* Mutation of refused: the breaker's answer is ignored.
refused_never(has_breaker, ok) == FALSE

\* if self.circuit_breaker and not self.circuit_breaker.can_execute()
refused(has_breaker, ok) == has_breaker /\ ~ok

\* Mutation of is_retryable: `except Exception`.
is_retryable_any(kind) == TRUE

\* except retryable_exceptions as e
is_retryable(kind) == kind \in retryable_exceptions

\* Mutation of final_error: the wrapper is raised whatever was caught.
final_error_generic(c, t) == AllFailedError(t)

\* raise last_exception or Exception(...)
final_error(c, t) ==
    IF c.last_exception = NoError THEN AllFailedError(t) ELSE c.last_exception

\* Mutation of attempts_remain: the last retry is given up.
attempts_remain_one_less(attempt, max) == attempt < max - 2

\* Mutation of attempts_remain: the last attempt is slept on and retried.
attempts_remain_one_more(attempt, max) == attempt < max

\* if attempt < self.policy.max_attempts - 1
attempts_remain(attempt, max) == attempt < max - 1

\* delay = self.policy.get_delay(attempt)
retry_delay(attempt) == get_delay(attempt)

\* result = await func(): the operation is invoked for the current attempt.
invoke(c) == [ c EXCEPT !.calls = @ + 1, !.pc = "awaiting" ]

\* The call starts: the breaker is consulted, then the first attempt is made.
Execute(t) ==
    /\ task[t].pc = "idle"
    /\ LET ok == can_execute_ret(cb, now)
           c  == [ task[t] EXCEPT !.admitted = ~attached \/ ok ]
       IN  /\ cb' = IF attached THEN can_execute(cb, now) ELSE cb
           /\ last_call' = IF attached
                         THEN Call("can_execute", ok)
                         ELSE last_call
           /\ task' = [ task EXCEPT ![t] =
                  IF refused(attached, ok)
                  THEN [ c EXCEPT !.pc = "raised", !.result = CircuitOpenError(t) ]
                  ELSE IF max_attempts > 0
                       THEN invoke(c)
                       ELSE [ c EXCEPT !.pc = "raised",
                                       !.result = final_error(c, t) ] ]
    /\ UNCHANGED <<now, history, attached, max_attempts, ext_calls, laterVars>>

\* The awaited operation returns a value.
FuncReturns(t) ==
    /\ task[t].pc = "awaiting"
    /\ cb' = IF attached THEN record_success(cb, now) ELSE cb
    /\ last_call' = IF attached
                  THEN Call("record_success", TRUE)
                  ELSE last_call
    /\ task' = [ task EXCEPT ![t] =
           [ @ EXCEPT !.pc = "returned",
                      !.result = Value(t, task[t].calls),
                      !.outcomes = Append(@, "ok"),
                      !.rec_success = IF attached THEN @ + 1 ELSE @ ] ]
    /\ UNCHANGED <<now, history, attached, max_attempts, ext_calls, laterVars>>

\* The awaited operation raises an exception of some kind.
FuncRaises(t) ==
    /\ task[t].pc = "awaiting"
    /\ \E kind \in ErrorKinds :
         LET c == task[t]
             e == Error(kind, t, c.calls)
             seen == [ c EXCEPT !.outcomes = Append(@, kind) ]
         IN  IF is_retryable(kind)
             THEN /\ cb' = IF attached THEN record_failure(cb, now) ELSE cb
                  /\ last_call' = IF attached
                                THEN Call("record_failure", TRUE)
                                ELSE last_call
                  /\ LET d == [ seen EXCEPT !.last_exception = e,
                                  !.rec_failure = IF attached THEN @ + 1 ELSE @ ]
                     IN  task' = [ task EXCEPT ![t] =
                           IF attempts_remain(c.attempt, max_attempts)
                           THEN [ d EXCEPT !.pc = "sleeping",
                                           !.sleeps = Append(@, retry_delay(c.attempt)),
                                           !.wake_at = now + retry_delay(c.attempt) ]
                           ELSE [ d EXCEPT !.pc = "raised",
                                           !.result = final_error(d, t) ] ]
             ELSE /\ UNCHANGED <<cb, last_call>>
                  /\ task' = [ task EXCEPT ![t] =
                           [ seen EXCEPT !.pc = "raised", !.result = e ] ]
    /\ UNCHANGED <<now, history, attached, max_attempts, ext_calls, laterVars>>

\* asyncio.sleep(delay) is over: the next attempt is made.
Wake(t) ==
    /\ task[t].pc = "sleeping"
    /\ now >= task[t].wake_at
    /\ task' = [ task EXCEPT ![t] = invoke([ @ EXCEPT !.attempt = @ + 1 ]) ]
    /\ UNCHANGED <<cb, now, history, last_call, attached, max_attempts, ext_calls, laterVars>>

\* Another user of the same breaker (get_circuit_breaker hands the one
\* object to all of them) calls it directly; without a breaker attached
\* there is none to call.
ExtCanExecute ==
    /\ attached /\ ext_calls < MaxExtCalls
    /\ cb' = can_execute(cb, now)
    /\ last_call' = Call("can_execute", can_execute_ret(cb, now))
    /\ ext_calls' = ext_calls + 1
    /\ UNCHANGED <<now, history, attached, max_attempts, task, laterVars>>

ExtRecordSuccess ==
    /\ attached /\ ext_calls < MaxExtCalls
    /\ cb' = record_success(cb, now)
    /\ last_call' = Call("record_success", TRUE)
    /\ ext_calls' = ext_calls + 1
    /\ UNCHANGED <<now, history, attached, max_attempts, task, laterVars>>

ExtRecordFailure ==
    /\ attached /\ ext_calls < MaxExtCalls
    /\ cb' = record_failure(cb, now)
    /\ last_call' = Call("record_failure", TRUE)
    /\ ext_calls' = ext_calls + 1
    /\ UNCHANGED <<now, history, attached, max_attempts, task, laterVars>>

ExtReset ==
    /\ attached /\ ext_calls < MaxExtCalls
    /\ cb' = reset(cb)
    /\ last_call' = Call("reset", TRUE)
    /\ ext_calls' = ext_calls + 1
    /\ UNCHANGED <<now, history, attached, max_attempts, task, laterVars>>

InitRetry ==
    /\ \E th \in 1..MaxThreshold, tmo \in 1..MaxTimeout :
            cb = CircuitBreaker(th, tmo)
    /\ now = 0
    /\ history = <<>>
    /\ last_call = NoCall
    /\ attached \in BOOLEAN
    /\ max_attempts \in 1..MaxAttempts
    /\ task = [t \in {"t1"} |-> NewCall]
    /\ ext_calls = 0
    /\ LaterIdle

NextRetry ==
    \/ Tick
    \/ \E t \in DOMAIN task : Execute(t)
    \/ \E t \in DOMAIN task : FuncReturns(t)
    \/ \E t \in DOMAIN task : FuncRaises(t)
    \/ \E t \in DOMAIN task : Wake(t)
    \/ ExtCanExecute
    \/ ExtRecordSuccess
    \/ ExtRecordFailure
    \/ ExtReset

SpecRetry == InitRetry /\ [][NextRetry]_vars

\* ------------------------------------------------------------ SpecConc
\* Two execute_with_retry calls run as two tasks of one event loop against
\* one breaker. A task gives up control only at `await func()` and at
\* `await asyncio.sleep(delay)`; can_execute, record_success and
\* record_failure contain no await, so each runs to its end within the
\* step of the task that calls it.
InitConc ==
    /\ \E th \in 1..MaxThreshold, tmo \in 1..MaxTimeout :
            cb = CircuitBreaker(th, tmo)
    /\ now = 0
    /\ history = <<>>
    /\ last_call = NoCall
    /\ attached = TRUE
    /\ max_attempts \in 1..MaxConcAttempts
    /\ task = [t \in Tasks |-> NewCall]
    /\ ext_calls = 0
    /\ LaterIdle

NextConc ==
    \/ Tick
    \/ \E t \in DOMAIN task : Execute(t)
    \/ \E t \in DOMAIN task : FuncReturns(t)
    \/ \E t \in DOMAIN task : FuncRaises(t)
    \/ \E t \in DOMAIN task : Wake(t)

SpecConc == InitConc /\ [][NextConc]_vars

\* --------------------------------------------------------------- SpecWS
\* One EnhancedWebSocketManager after start_streaming: the stream task runs
\* _stream_with_reconnect, stepped from one await to the next, and its
\* owner may call disconnect() while the task is suspended. connect() runs
\* execute_with_retry as task "t1" on the manager's own breaker `cb`;
\* time passes while the task sleeps.
InConnect == "t1"

\* connect_func invocations so far: those of earlier connect() calls and
\* those of the execute_with_retry call under way.
ConnectFuncCalls == wslog.func_calls + task[InConnect].calls

\* The execute_with_retry call is over and its locals are gone.
call_over == [ task EXCEPT ![InConnect] = NewCall ]

\* Mutation of connect_refused: the breaker's answer is ignored.
connect_refused_never(ok) == FALSE

\* if not self.circuit_breaker.can_execute()
connect_refused(ok) == ~ok

\* Mutation of connected: reconnect_attempts is left as it is.
connected_keeps_attempts(w, t) ==
    [ w EXCEPT !.state = CONNECTED,
               !.last_message_time = t,
               !.connection_start_time = t,
               !.total_connections = @ + 1 ]

\* connect(), `if success:` up to the stats update.
connected(w, t) ==
    [ w EXCEPT !.state = CONNECTED,
               !.reconnect_attempts = 0,
               !.last_message_time = t,
               !.connection_start_time = t,
               !.total_connections = @ + 1 ]

\* connect(), `except Exception as e:` up to the stats update.
connect_failed(w) ==
    [ w EXCEPT !.state = FAILED, !.total_errors = @ + 1 ]

\* Mutation of backoff: the exponent is the attempt count after its
\* increment.
backoff_after_increment(attempts) ==
    Min(WS_INITIAL_BACKOFF * Pow(2, attempts + 1), WS_MAX_BACKOFF)

\* backoff = min(WS_INITIAL_BACKOFF * (2 ** reconnect_attempts), WS_MAX_BACKOFF)
backoff(attempts) == Min(WS_INITIAL_BACKOFF * Pow(2, attempts), WS_MAX_BACKOFF)

\* _backoff_and_retry up to its await: at the cap the state becomes FAILED
\* and the coroutine returns; below it the attempt is counted and
\* asyncio.sleep(backoff) follows.
backoff_and_retry(w) ==
    IF w.reconnect_attempts >= w.WS_MAX_RECONNECT_ATTEMPTS
    THEN [ ws |-> [ w EXCEPT !.state = FAILED ], sleeps |-> FALSE, delay |-> 0 ]
    ELSE [ ws     |-> [ w EXCEPT !.reconnect_attempts = @ + 1 ],
           sleeps |-> TRUE,
           delay  |-> backoff(w.reconnect_attempts) ]

\* The stream task after _backoff_and_retry began on manager w: asleep, or
\* back at the top of `while True` when the cap was hit.
after_backoff(w) ==
    LET b == backoff_and_retry(w)
    IN  IF b.sleeps
        THEN [ pc |-> "backoff_sleep", wake_at |-> now + b.delay, connect_ret |-> FALSE ]
        ELSE [ pc |-> "loop", wake_at |-> 0, connect_ret |-> FALSE ]

\* _backoff_and_retry counted in the log when it sets FAILED.
log_backoff(w, l) ==
    IF backoff_and_retry(w).sleeps THEN l ELSE [ l EXCEPT !.cap_failed = @ + 1 ]

InitWS ==
    /\ \E cap \in 1..MaxReconnectCap, hc \in BOOLEAN, he \in BOOLEAN :
          ws = [ EnhancedWebSocketManager(cap) EXCEPT !.on_connected = hc,
                                                      !.on_error = he ]
    /\ stream = NoStream
    /\ wslog = NoWsLog
    /\ monitor = NoMonitor
    /\ cb = CircuitBreaker(CIRCUIT_BREAKER_THRESHOLD, CIRCUIT_BREAKER_TIMEOUT)
    /\ now = 0
    /\ history = <<>>
    /\ last_call = NoCall
    /\ attached = TRUE
    /\ max_attempts = RetryPolicy.max_attempts
    /\ task = [t \in {InConnect} |-> NewCall]
    /\ ext_calls = 0
    /\ DelayIdle
    /\ RegistryIdle
    /\ ProxyIdle

\* What the stream loop's own steps leave alone.
wsFrame ==
    <<history, attached, max_attempts, ext_calls, delayVars, registryVars, proxyVars,
      monitor>>

\* start_streaming(): the stream task is created.
StartStreaming ==
    /\ stream.pc = "none"
    /\ stream' = [ stream EXCEPT !.pc = "loop" ]
    /\ UNCHANGED <<ws, wslog, cb, now, last_call, task, wsFrame>>

\* Top of the loop with state CIRCUIT_OPEN:
\* await asyncio.sleep(CIRCUIT_BREAKER_TIMEOUT).
CircuitWait ==
    /\ stream.pc = "loop"
    /\ ws.state = CIRCUIT_OPEN
    /\ wslog.circuit_waits < MaxCircuitWaits
    /\ stream' = [ stream EXCEPT !.pc = "circuit_wait",
                                 !.wake_at = now + CIRCUIT_BREAKER_TIMEOUT ]
    /\ wslog' = [ wslog EXCEPT !.circuit_waits = @ + 1 ]
    /\ UNCHANGED <<ws, cb, now, last_call, task, wsFrame>>

\* The sleep is over: self.circuit_breaker.reset(); continue.
CircuitWaitOver ==
    /\ stream.pc = "circuit_wait"
    /\ now >= stream.wake_at
    /\ cb' = reset(cb)
    /\ last_call' = Call("reset", TRUE)
    /\ stream' = [ stream EXCEPT !.pc = "loop" ]
    /\ UNCHANGED <<ws, wslog, now, task, wsFrame>>

\* Top of the loop, state neither CIRCUIT_OPEN nor CONNECTED: connect() is
\* called and runs up to its first await. A refused call returns False at
\* once; an admitted one sets CONNECTING and enters execute_with_retry.
Connect ==
    /\ stream.pc = "loop"
    /\ ws.state \notin {CIRCUIT_OPEN, CONNECTED}
    /\ wslog.connects < MaxConnects
    /\ LET ok == can_execute_ret(cb, now)
       IN  /\ cb' = can_execute(cb, now)
           /\ last_call' = Call("can_execute", ok)
           /\ task' = [ task EXCEPT ![InConnect] = NewCall ]
           /\ wslog' = [ wslog EXCEPT
                  !.connects = @ + 1,
                  !.func_calls = ConnectFuncCalls,
                  !.at_connect = [ total_connections  |-> ws.total_connections,
                                   on_connected_calls |-> wslog.on_connected_calls,
                                   func_calls         |-> ConnectFuncCalls,
                                   can_execute        |-> ok,
                                   connecting         |-> ~connect_refused(ok) ] ]
           /\ IF connect_refused(ok)
              THEN /\ ws' = [ ws EXCEPT !.state = CIRCUIT_OPEN ]
                   /\ stream' = [ stream EXCEPT !.pc = "connect_returned",
                                                !.connect_ret = FALSE ]
              ELSE /\ ws' = [ ws EXCEPT !.state = CONNECTING ]
                   /\ stream' = [ stream EXCEPT !.pc = "connect_retry" ]
    /\ UNCHANGED <<now, wsFrame>>

\* retry_manager.execute_with_retry(_do_connect, ...): the steps of the
\* retry manager, with connect_func as the operation (a falsy return is
\* _do_connect's ConnectionError).
ConnectExecute == stream.pc = "connect_retry" /\ Execute(InConnect)
ConnectFuncReturns == stream.pc = "connect_retry" /\ FuncReturns(InConnect)
ConnectFuncRaises == stream.pc = "connect_retry" /\ FuncRaises(InConnect)
ConnectWake == stream.pc = "connect_retry" /\ Wake(InConnect)

\* execute_with_retry returned: the `if success:` branch up to
\* `await self.on_connected()`, or to `return True` without a hook.
ConnectSucceeds ==
    /\ stream.pc = "connect_retry"
    /\ task[InConnect].pc = "returned"
    /\ ws' = connected(ws, now)
    /\ cb' = record_success(cb, now)
    /\ last_call' = Call("record_success", TRUE)
    /\ task' = call_over
    /\ IF ws.on_connected
       THEN /\ stream' = [ stream EXCEPT !.pc = "on_connected" ]
            /\ wslog' = [ wslog EXCEPT !.func_calls = ConnectFuncCalls,
                                       !.on_connected_calls = @ + 1 ]
       ELSE /\ stream' = [ stream EXCEPT !.pc = "connect_returned",
                                         !.connect_ret = TRUE ]
            /\ wslog' = [ wslog EXCEPT !.func_calls = ConnectFuncCalls ]
    /\ UNCHANGED <<now, wsFrame>>

\* execute_with_retry raised: `except Exception as e:` ... return False.
ConnectFails ==
    /\ stream.pc = "connect_retry"
    /\ task[InConnect].pc = "raised"
    /\ ws' = connect_failed(ws)
    /\ cb' = record_failure(cb, now)
    /\ last_call' = Call("record_failure", TRUE)
    /\ stream' = [ stream EXCEPT !.pc = "connect_returned", !.connect_ret = FALSE ]
    /\ task' = call_over
    /\ wslog' = [ wslog EXCEPT !.func_calls = ConnectFuncCalls ]
    /\ UNCHANGED <<now, wsFrame>>

\* The on_connected hook returns: return True.
OnConnectedReturns ==
    /\ stream.pc = "on_connected"
    /\ stream' = [ stream EXCEPT !.pc = "connect_returned", !.connect_ret = TRUE ]
    /\ UNCHANGED <<ws, wslog, cb, now, last_call, task, wsFrame>>

\* The on_connected hook raises inside the try: the except branch runs.
OnConnectedRaises ==
    /\ stream.pc = "on_connected"
    /\ ws' = connect_failed(ws)
    /\ cb' = record_failure(cb, now)
    /\ last_call' = Call("record_failure", TRUE)
    /\ stream' = [ stream EXCEPT !.pc = "connect_returned", !.connect_ret = FALSE ]
    /\ UNCHANGED <<wslog, now, task, wsFrame>>

\* connect() returned False: await self._backoff_and_retry(); continue.
ConnectFailedBackoff ==
    /\ stream.pc = "connect_returned"
    /\ ~stream.connect_ret
    /\ ws' = backoff_and_retry(ws).ws
    /\ stream' = after_backoff(ws)
    /\ wslog' = log_backoff(ws, wslog)
    /\ UNCHANGED <<cb, now, last_call, task, wsFrame>>

\* asyncio.sleep(backoff) is over: back to the top of the loop.
BackoffOver ==
    /\ stream.pc = "backoff_sleep"
    /\ now >= stream.wake_at
    /\ stream' = [ stream EXCEPT !.pc = "loop" ]
    /\ UNCHANGED <<ws, wslog, cb, now, last_call, task, wsFrame>>

\* await self.stream_func(): after connect() returned True, or at the top
\* of the loop with state CONNECTED.
StreamFunc ==
    /\ \/ stream.pc = "connect_returned" /\ stream.connect_ret
       \/ stream.pc = "loop" /\ ws.state = CONNECTED
    /\ stream' = [ stream EXCEPT !.pc = "streaming" ]
    /\ UNCHANGED <<ws, wslog, cb, now, last_call, task, wsFrame>>

\* stream_func returns: the loop goes round.
StreamReturns ==
    /\ stream.pc = "streaming"
    /\ stream' = [ stream EXCEPT !.pc = "loop" ]
    /\ UNCHANGED <<ws, wslog, cb, now, last_call, task, wsFrame>>

\* The rest of `except Exception as e:` after the hook:
\* self.state = RECONNECTING; await self._backoff_and_retry().
reconnecting(w) == [ w EXCEPT !.state = RECONNECTING ]

\* stream_func raises: the error is counted, then on_error is awaited when
\* set, else the handler goes on to the backoff.
StreamRaises ==
    /\ stream.pc = "streaming"
    /\ LET w == [ ws EXCEPT !.total_errors = @ + 1 ]
       IN  IF ws.on_error
           THEN /\ ws' = w
                /\ stream' = [ stream EXCEPT !.pc = "on_error" ]
                /\ wslog' = [ wslog EXCEPT !.on_error_calls = @ + 1 ]
           ELSE /\ ws' = backoff_and_retry(reconnecting(w)).ws
                /\ stream' = after_backoff(reconnecting(w))
                /\ wslog' = log_backoff(reconnecting(w), wslog)
    /\ UNCHANGED <<cb, now, last_call, task, wsFrame>>

\* The on_error hook returns.
OnErrorReturns ==
    /\ stream.pc = "on_error"
    /\ ws' = backoff_and_retry(reconnecting(ws)).ws
    /\ stream' = after_backoff(reconnecting(ws))
    /\ wslog' = log_backoff(reconnecting(ws), wslog)
    /\ UNCHANGED <<cb, now, last_call, task, wsFrame>>

\* The on_error hook raises inside the except handler: the exception
\* leaves _stream_with_reconnect and the task ends with it.
OnErrorRaises ==
    /\ stream.pc = "on_error"
    /\ stream' = [ stream EXCEPT !.pc = "crashed" ]
    /\ UNCHANGED <<ws, wslog, cb, now, last_call, task, wsFrame>>

\* The stream task is suspended in an await.
AtAwait ==
    \/ stream.pc \in {"backoff_sleep", "circuit_wait", "streaming",
                      "on_connected", "on_error"}
    \/ stream.pc = "connect_retry" /\ task[InConnect].pc \in {"awaiting", "sleeping"}

\* When the sleep the stream task is in ends; `now` when it is in none.
Deadline ==
    IF stream.pc \in {"backoff_sleep", "circuit_wait"}
    THEN stream.wake_at
    ELSE IF stream.pc = "connect_retry" /\ task[InConnect].pc = "sleeping"
         THEN task[InConnect].wake_at
         ELSE now

\* The event loop has nothing to run before the sleep ends.
WsTimePasses ==
    /\ Deadline > now
    /\ now' = Deadline
    /\ UNCHANGED <<ws, stream, wslog, cb, last_call, task, wsFrame>>

\* The owner calls disconnect() while the stream task is suspended: the
\* task is cancelled (CancelledError ends the loop from whichever await it
\* is in), then the state and the stats are updated.
Disconnect ==
    /\ AtAwait
    /\ stream' = [ stream EXCEPT !.pc = "cancelled" ]
    /\ ws' = [ ws EXCEPT !.state = DISCONNECTED, !.total_disconnections = @ + 1 ]
    /\ task' = call_over
    /\ wslog' = [ wslog EXCEPT !.func_calls = ConnectFuncCalls ]
    /\ UNCHANGED <<cb, now, last_call, wsFrame>>

NextWS ==
    \/ StartStreaming
    \/ CircuitWait
    \/ CircuitWaitOver
    \/ Connect
    \/ ConnectExecute
    \/ ConnectFuncReturns
    \/ ConnectFuncRaises
    \/ ConnectWake
    \/ ConnectSucceeds
    \/ ConnectFails
    \/ OnConnectedReturns
    \/ OnConnectedRaises
    \/ ConnectFailedBackoff
    \/ BackoffOver
    \/ StreamFunc
    \/ StreamReturns
    \/ StreamRaises
    \/ OnErrorReturns
    \/ OnErrorRaises
    \/ WsTimePasses
    \/ Disconnect

SpecWS == InitWS /\ [][NextWS]_vars

\* ---------------------------------------------------------- SpecBackoff
\* The stream loop of a manager with the default config, followed through
\* as many consecutive reconnect attempts as the config allows. connect()
\* is taken by its outcome only: it returns True or False and leaves the
\* manager as its success or failure branch does. The breaker is left
\* out: it is the registry's object for the name, which its other holders
\* may reset or report successes to, so it is not what ends a run of
\* failed connects here.
InitBackoff ==
    /\ ws = EnhancedWebSocketManager(WS_MAX_RECONNECT_ATTEMPTS)
    /\ stream = NoStream
    /\ wslog = NoWsLog
    /\ monitor = NoMonitor
    /\ cb = CircuitBreaker(CIRCUIT_BREAKER_THRESHOLD, CIRCUIT_BREAKER_TIMEOUT)
    /\ now = 0
    /\ history = <<>>
    /\ last_call = NoCall
    /\ attached = TRUE
    /\ max_attempts = RetryPolicy.max_attempts
    /\ task = [t \in {InConnect} |-> NewCall]
    /\ ext_calls = 0
    /\ DelayIdle
    /\ RegistryIdle
    /\ ProxyIdle

\* `if self.state != CONNECTED: if not await self.connect():` with the
\* connect() call over: it succeeded or it failed.
ConnectOutcome ==
    /\ stream.pc = "loop"
    /\ ws.state \notin {CIRCUIT_OPEN, CONNECTED}
    /\ wslog.connects < MaxBackoffConnects
    /\ \E ok \in BOOLEAN :
          /\ ws' = IF ok THEN connected(ws, now) ELSE connect_failed(ws)
          /\ stream' = [ stream EXCEPT !.pc = "connect_returned", !.connect_ret = ok ]
    /\ wslog' = [ wslog EXCEPT !.connects = @ + 1 ]
    /\ UNCHANGED <<cb, now, last_call, task, wsFrame>>

NextBackoff ==
    \/ StartStreaming
    \/ ConnectOutcome
    \/ ConnectFailedBackoff
    \/ BackoffOver
    \/ StreamFunc
    \/ StreamReturns
    \/ StreamRaises
    \/ WsTimePasses

SpecBackoff == InitBackoff /\ [][NextBackoff]_vars

\* ---------------------------------------------------------- SpecMonitor
\* One EnhancedWebSocketManager with all three tasks of start_streaming:
\* the stream task as in SpecWS, the health monitor and the heartbeat.
\* disconnect() is stepped from one await to the next and is run by the
\* owner and by the health monitor; a cancelled task takes its
\* CancelledError before anything else runs.

\* The tasks in the order disconnect() cancels and awaits them.
TaskOrder == <<"stream", "health", "heartbeat">>

\* What the tasks and the disconnect() calls work on.
Bundle == [ ws |-> ws, stream |-> stream, task |-> task, wslog |-> wslog,
            mon |-> monitor ]

\* `if task:` in disconnect(): the task was created.
task_exists(s, T) ==
    IF T = "stream" THEN s.stream.pc # "none" ELSE s.mon[T].pc # "none"

\* task.done()
task_done(s, T) ==
    IF T = "stream"
    THEN s.stream.pc \in {"cancelled", "crashed"}
    ELSE s.mon[T].pc = "done"

\* The stream task takes CancelledError in the await it is suspended in:
\* `except asyncio.CancelledError: break`.
stream_cancelled(s) ==
    [ s EXCEPT !.stream.pc = "cancelled",
               !.task = [ s.task EXCEPT ![InConnect] = NewCall ],
               !.wslog.func_calls = @ + s.task[InConnect].calls ]

\* The health monitor is cancelled by another task. Asleep in its loop it
\* breaks out. Suspended in `await task` of its own disconnect() the
\* CancelledError is caught by `except asyncio.CancelledError: pass` and
\* the monitor goes on; suspended in the hook the error leaves
\* disconnect() and ends the loop.
health_cancelled(s) ==
    IF s.mon.health.pc = "sleep"
    THEN [ s EXCEPT !.mon.health = TaskDone ]
    ELSE IF s.mon.health.pc = "disconnecting" /\ s.mon.disc["health"].pc = "hook"
         THEN [ s EXCEPT !.mon.health = TaskDone, !.mon.disc["health"] = Raised ]
         ELSE s

\* task.cancel() by another task, and what the cancelled task does with it.
cancel(s, T) ==
    IF task_done(s, T)
    THEN s
    ELSE IF T = "stream"
         THEN stream_cancelled(s)
         ELSE IF T = "heartbeat"
              THEN [ s EXCEPT !.mon.heartbeat = TaskDone ]
              ELSE health_cancelled(s)

\* disconnect() returned to caller X; the health monitor goes round its
\* loop to the next asyncio.sleep(check_interval).
returned(s, X) ==
    LET r == [ s EXCEPT !.mon.disc[X] = Returned ]
    IN  IF X = "health"
        THEN [ r EXCEPT !.mon.health = Sleeping(now + WS_HEALTH_CHECK_INTERVAL) ]
        ELSE r

\* disconnect() left by an exception. In the health monitor it is caught
\* by `except Exception` of the loop, which goes round.
raised(s, X) ==
    LET r == [ s EXCEPT !.mon.disc[X] = Raised ]
    IN  IF X = "health"
        THEN [ r EXCEPT !.mon.health = Sleeping(now + WS_HEALTH_CHECK_INTERVAL) ]
        ELSE r

\* disconnect() after the loop over the tasks: the state and the stats,
\* then `await self.on_disconnected()` when the hook is set.
disconnected(s, X) ==
    LET d == [ s EXCEPT !.ws.state = DISCONNECTED,
                        !.ws.total_disconnections = @ + 1 ]
    IN  IF s.mon.on_disconnected
        THEN [ d EXCEPT !.mon.disc[X] = InHook, !.mon.hook_calls[X] = @ + 1 ]
        ELSE returned(d, X)

\* `await task` on a pending task that once awaited itself: the C Future
\* still has its blocking flag set and its iterator raises RuntimeError
\* ("await wasn't used with future") in the awaiting coroutine.
await_raises(s, T) ==
    T = "health" /\ s.mon.self_awaited /\ s.mon.c_future

\* disconnect() run by X from the i-th task on, up to its next suspension:
\* a missing task is skipped, a finished one is awaited without
\* suspending, any other is cancelled and awaited. A task that cancels
\* and awaits itself is resumed with the CancelledError it asked for; when
\* the await raises RuntimeError instead, the cancellation is still
\* pending and ends the monitor at its next sleep.
RECURSIVE disconnect_from(_, _, _)
disconnect_from(s, X, i) ==
    IF i > Len(TaskOrder)
    THEN disconnected(s, X)
    ELSE LET T == TaskOrder[i]
         IN  IF ~task_exists(s, T) \/ task_done(s, T)
             THEN disconnect_from(s, X, i + 1)
             ELSE IF T = X
                  THEN IF await_raises(s, T)
                       THEN [ s EXCEPT !.mon.disc[X] = Raised, !.mon.health = TaskDone ]
                       ELSE [ s EXCEPT !.mon.disc[X] = AwaitingTask(i) ]
                  ELSE IF await_raises(s, T)
                       THEN raised(cancel(s, T), X)
                       ELSE [ cancel(s, T) EXCEPT !.mon.disc[X] = AwaitingTask(i) ]

\* The stream task is not in the middle of a step.
StreamSuspended == stream.pc \in {"none", "cancelled", "crashed"} \/ AtAwait

\* The variables take the values of bundle s.
Becomes(s) ==
    /\ ws' = s.ws
    /\ stream' = s.stream
    /\ task' = s.task
    /\ wslog' = s.wslog
    /\ monitor' = s.mon

\* What the tasks and disconnect() leave alone.
monitorFrame ==
    <<history, attached, max_attempts, ext_calls, delayVars, registryVars, proxyVars>>

InitMonitor ==
    /\ ws = EnhancedWebSocketManager(WS_MAX_RECONNECT_ATTEMPTS)
    /\ stream = NoStream
    /\ wslog = NoWsLog
    /\ \E hook \in BOOLEAN, c \in BOOLEAN :
          monitor = [ NoMonitor EXCEPT !.on_disconnected = hook, !.c_future = c ]
    /\ cb = CircuitBreaker(CIRCUIT_BREAKER_THRESHOLD, CIRCUIT_BREAKER_TIMEOUT)
    /\ now = 0
    /\ history = <<>>
    /\ last_call = NoCall
    /\ attached = TRUE
    /\ max_attempts = RetryPolicy.max_attempts
    /\ task = [t \in {InConnect} |-> NewCall]
    /\ ext_calls = 0
    /\ DelayIdle
    /\ RegistryIdle
    /\ ProxyIdle

\* start_streaming(): the three tasks are created.
StartAllTasks ==
    /\ stream.pc = "none"
    /\ monitor.disc["owner"].pc \notin {"await", "hook"}
    /\ stream' = [ stream EXCEPT !.pc = "loop" ]
    /\ monitor' = [ monitor EXCEPT
           !.health = Sleeping(now + WS_HEALTH_CHECK_INTERVAL),
           !.heartbeat = Sleeping(now + SEND_HEARTBEAT_INTERVAL) ]
    /\ UNCHANGED <<ws, wslog, cb, now, last_call, task, monitorFrame>>

\* _send_heartbeat: the sleep is over, nothing is sent, the loop goes round.
SendHeartbeat ==
    /\ monitor.heartbeat.pc = "sleep"
    /\ now >= monitor.heartbeat.wake_at
    /\ StreamSuspended
    /\ monitor' = [ monitor EXCEPT
           !.heartbeat = Sleeping(now + SEND_HEARTBEAT_INTERVAL) ]
    /\ UNCHANGED <<ws, stream, wslog, cb, now, last_call, task, monitorFrame>>

\* if time_since_message > timedelta(seconds=check_interval * 2)
stale(w, t) ==
    /\ w.state = CONNECTED
    /\ w.last_message_time # None
    /\ t - w.last_message_time > WS_HEALTH_CHECK_INTERVAL * 2

\* _monitor_health: the sleep is over. A connected manager without a
\* recent message is set to RECONNECTING and disconnect() is awaited;
\* otherwise the loop goes round.
MonitorHealth ==
    /\ monitor.health.pc = "sleep"
    /\ now >= monitor.health.wake_at
    /\ StreamSuspended
    /\ IF stale(ws, now)
       THEN Becomes(disconnect_from(
                [ Bundle EXCEPT !.ws.state = RECONNECTING,
                                !.mon.health.pc = "disconnecting",
                                !.mon.forced = @ + 1,
                                !.mon.connects_then = wslog.connects,
                                !.mon.hook_calls["health"] = 0 ],
                "health", 1))
       ELSE /\ monitor' = [ monitor EXCEPT
                   !.health = Sleeping(now + WS_HEALTH_CHECK_INTERVAL) ]
            /\ UNCHANGED <<ws, stream, wslog, task>>
    /\ UNCHANGED <<cb, now, last_call, monitorFrame>>

\* The owner calls disconnect().
OwnerDisconnect ==
    /\ StreamSuspended
    /\ monitor.disc["owner"].pc \notin {"await", "hook"}
    /\ monitor.disconnects < MaxDisconnects
    /\ Becomes(disconnect_from(
           [ Bundle EXCEPT !.mon.disconnects = @ + 1,
                           !.mon.cb_then = cb,
                           !.mon.hook_calls["owner"] = 0 ],
           "owner", 1))
    /\ UNCHANGED <<cb, now, last_call, monitorFrame>>

\* X is suspended in `await task` and the awaited task is over or is X.
await_over(X) ==
    /\ monitor.disc[X].pc = "await"
    /\ TaskOrder[monitor.disc[X].i] = X
           \/ task_done(Bundle, TaskOrder[monitor.disc[X].i])

\* The task a disconnect() awaits is over, or is the caller itself: the
\* await ends (with CancelledError, which is passed over) and the loop
\* over the tasks goes on.
DisconnectResumes(X) ==
    /\ await_over(X)
    /\ StreamSuspended
    /\ LET i == monitor.disc[X].i
           T == TaskOrder[i]
       IN  /\ Becomes(disconnect_from(
                  [ Bundle EXCEPT !.mon.self_awaited = @ \/ (T = X) ], X, i + 1))
    /\ UNCHANGED <<cb, now, last_call, monitorFrame>>

\* The on_disconnected hook returns, and so does disconnect().
HookReturns(X) ==
    /\ monitor.disc[X].pc = "hook"
    /\ StreamSuspended
    /\ Becomes(returned(Bundle, X))
    /\ UNCHANGED <<cb, now, last_call, monitorFrame>>

\* The on_disconnected hook raises: the exception leaves disconnect().
HookRaises(X) ==
    /\ monitor.disc[X].pc = "hook"
    /\ StreamSuspended
    /\ Becomes(raised(Bundle, X))
    /\ UNCHANGED <<cb, now, last_call, monitorFrame>>

\* update_last_message_time(), called for a message of the stream.
UpdateLastMessageTime ==
    /\ stream.pc = "streaming"
    /\ monitor.messages < MaxMessages
    /\ ws' = [ ws EXCEPT !.last_message_time = now ]
    /\ monitor' = [ monitor EXCEPT !.messages = @ + 1 ]
    /\ UNCHANGED <<stream, wslog, cb, now, last_call, task, monitorFrame>>

\* When the sleeping tasks wake.
Deadlines ==
    { monitor[T].wake_at : T \in { U \in {"health", "heartbeat"} : monitor[U].pc = "sleep" } }
        \cup (IF Deadline > now THEN {Deadline} ELSE {})

\* Every task is suspended and no awaited task is over: time moves on to
\* the earliest wake-up.
MonitorTimePasses ==
    /\ StreamSuspended
    /\ \A X \in Callers : ~await_over(X)
    /\ Deadlines # {}
    /\ \A d \in Deadlines : d > now
    /\ LET next == CHOOSE d \in Deadlines : \A e \in Deadlines : d <= e
       IN  /\ next <= MaxMonitorTime
           /\ now' = next
    /\ UNCHANGED <<ws, stream, wslog, monitor, cb, last_call, task, monitorFrame>>

NextMonitor ==
    \/ StartAllTasks
    \/ Connect
    \/ ConnectExecute
    \/ ConnectFuncReturns
    \/ ConnectSucceeds
    \/ BackoffOver
    \/ StreamFunc
    \/ StreamReturns
    \/ StreamRaises
    \/ SendHeartbeat
    \/ MonitorHealth
    \/ OwnerDisconnect
    \/ \E X \in Callers : DisconnectResumes(X)
    \/ \E X \in Callers : HookReturns(X)
    \/ \E X \in Callers : HookRaises(X)
    \/ UpdateLastMessageTime
    \/ MonitorTimePasses

SpecMonitor == InitMonitor /\ [][NextMonitor]_vars

\* ------------------------------------------------------------ SpecProxy
\* A WebSocketReconnectManager whose connect() has just succeeded: its
\* ProxyWebSocketClient is connected and the client's receive, heartbeat
\* and health-check loops run. The transport delivers frames or stays
\* silent; time passes when every loop is asleep.

\* ProxyWebSocketClient.is_active
is_active(c) == c.is_active /\ c.ws_open /\ c.state = CONNECTED

\* Mutation of heartbeat_timed_out: whether a pong came is not looked at
\* and one interval since the ping is enough.
heartbeat_timed_out_unasked(c, t) == t - c.last_ping_time >= HEARTBEAT_INTERVAL

\* if self._waiting_for_pong: ... if time_since_ping > self._heartbeat_timeout
heartbeat_timed_out(c, t) ==
    c.waiting_for_pong /\ t - c.last_ping_time > HEARTBEAT_TIMEOUT

\* await self._ws.ping() returned, in the heartbeat loop.
ping_sent(c, t) ==
    [ c EXCEPT !.last_ping_time = t,
               !.waiting_for_pong = TRUE,
               !.total_pings_sent = @ + 1 ]

\* ProxyWebSocketClient._cleanup: the fields it changes.
cleanup(c) ==
    [ c EXCEPT !.ws_open = FALSE, !.released = TRUE, !.is_active = FALSE ]

\* ProxyWebSocketClient._handle_disconnect
handle_disconnect(c) ==
    [ c EXCEPT !.is_active = FALSE,
               !.state = DISCONNECTED,
               !.total_disconnections = @ + 1 ]

\* WebSocketReconnectManager._handle_reconnect: the fields it changes.
handle_reconnect(m) ==
    IF m.is_reconnecting
    THEN m
    ELSE [ m EXCEPT !.is_reconnecting = TRUE, !.reconnect_attempts = @ + 1 ]

\* asyncio.create_task(self._do_reconnect()): a task about to run.
Started == [ pc |-> "start", wake_at |-> 0, at |-> 0 ]

\* `while self._state == ConnectionState.CONNECTED:` followed by the sleep
\* of the heartbeat loop and of the health-check loop.
heartbeat_loop(c, t) ==
    IF c.state = CONNECTED THEN Asleep(t + HEARTBEAT_INTERVAL) ELSE LoopDone
health_check_loop(c, t) ==
    IF c.state = CONNECTED THEN Asleep(t + (IDLE_TIMEOUT \div 2)) ELSE LoopDone

\* The tasks after _trigger_reconnect ran for manager m: _cleanup cancels
\* the heartbeat and health-check tasks (the caller's own loop goes on as
\* `own`), and _handle_reconnect creates the _do_reconnect task unless a
\* reconnect is under way.
triggered(l, m, own_heartbeat, own_health) ==
    [ l EXCEPT !.heartbeat = own_heartbeat,
               !.health = own_health,
               !.reconnect = IF m.is_reconnecting THEN @ ELSE Started ]

\* delay = min(initial_delay * (2 ** (reconnect_attempts - 1)), max_delay)
reconnect_delay(attempts) ==
    Min(INITIAL_RECONNECT_DELAY * Pow(2, attempts - 1), MAX_RECONNECT_DELAY)

\* A ping went out: the silence after it starts unless one is running.
log_ping(l, t) ==
    IF l.unanswered = None
    THEN [ l EXCEPT !.unanswered = t, !.attempts_then = mgr.reconnect_attempts ]
    ELSE l

InitProxy ==
    /\ client = ProxyWebSocketClient(0)
    /\ \E k \in 0..MaxInitialFailures :
          mgr = [ WebSocketReconnectManager EXCEPT !.reconnect_attempts = k ]
    /\ loops = ClientLoops(0)
    /\ plog = NoProxyLog
    /\ CoreIdle
    /\ DelayIdle
    /\ RegistryIdle
    /\ WsIdle

\* What the proxy client's steps leave alone.
proxyFrame == <<cb, history, last_call, retryVars, delayVars, registryVars, wsVars>>

\* The heartbeat loop wakes: skip when inactive, reconnect on a pong that
\* is overdue, else ping (the ping goes out).
HeartbeatWake ==
    /\ loops.heartbeat.pc = "sleep"
    /\ now >= loops.heartbeat.wake_at
    /\ IF ~is_active(client)
       THEN /\ loops' = [ loops EXCEPT !.heartbeat = heartbeat_loop(client, now) ]
            /\ UNCHANGED <<client, mgr, plog>>
       ELSE IF heartbeat_timed_out(client, now)
            THEN /\ client' = cleanup(client)
                 /\ mgr' = handle_reconnect(mgr)
                 /\ loops' = triggered(loops, mgr, LoopDone, LoopDone)
                 /\ plog' = [ plog EXCEPT !.hb_timeouts = @ + 1 ]
            ELSE /\ client' = ping_sent(client, now)
                 /\ loops' = [ loops EXCEPT
                        !.heartbeat = heartbeat_loop(client, now) ]
                 /\ plog' = log_ping(plog, now)
                 /\ UNCHANGED mgr
    /\ UNCHANGED <<now, proxyFrame>>

\* The heartbeat loop wakes and its ping raises: reconnect.
HeartbeatPingFails ==
    /\ loops.heartbeat.pc = "sleep"
    /\ now >= loops.heartbeat.wake_at
    /\ is_active(client)
    /\ ~heartbeat_timed_out(client, now)
    /\ client' = cleanup(client)
    /\ mgr' = handle_reconnect(mgr)
    /\ loops' = triggered(loops, mgr, LoopDone, LoopDone)
    /\ plog' = [ plog EXCEPT !.ping_failures = @ + 1, !.unanswered = None ]
    /\ UNCHANGED <<now, proxyFrame>>

\* time_since_message > self._idle_timeout
idle_timed_out(c, t) == t - c.last_message_time > IDLE_TIMEOUT

\* The health-check loop wakes: skip when inactive; when idle for too long
\* ping (the ping goes out) and sleep for the grace time.
HealthWake ==
    /\ loops.health.pc = "sleep"
    /\ now >= loops.health.wake_at
    /\ IF is_active(client) /\ idle_timed_out(client, now)
       THEN /\ loops' = [ loops EXCEPT !.health =
                   [ pc |-> "grace", wake_at |-> now + PONG_GRACE, at |-> now ] ]
            /\ plog' = log_ping(plog, now)
       ELSE /\ loops' = [ loops EXCEPT !.health = health_check_loop(client, now) ]
            /\ UNCHANGED plog
    /\ UNCHANGED <<client, mgr, now, proxyFrame>>

\* The health-check loop wakes idle and its ping raises: reconnect; the
\* loop outlives its own cancellation and goes round.
HealthPingFails ==
    /\ loops.health.pc = "sleep"
    /\ now >= loops.health.wake_at
    /\ is_active(client)
    /\ idle_timed_out(client, now)
    /\ client' = cleanup(client)
    /\ mgr' = handle_reconnect(mgr)
    /\ loops' = triggered(loops, mgr, LoopDone, health_check_loop(client, now))
    /\ plog' = [ plog EXCEPT !.idle_timeouts = @ + 1, !.unanswered = None ]
    /\ UNCHANGED <<now, proxyFrame>>

\* The grace sleep is over: if current_time - self._last_pong_time > 5,
\* reconnect; then the loop goes round.
HealthGraceOver ==
    /\ loops.health.pc = "grace"
    /\ now >= loops.health.wake_at
    /\ IF loops.health.at - client.last_pong_time > PONG_GRACE
       THEN /\ client' = cleanup(client)
            /\ mgr' = handle_reconnect(mgr)
            /\ loops' = triggered(loops, mgr, LoopDone,
                                  health_check_loop(client, now))
            /\ plog' = [ plog EXCEPT !.idle_timeouts = @ + 1, !.unanswered = None ]
       ELSE /\ loops' = [ loops EXCEPT !.health = health_check_loop(client, now) ]
            /\ UNCHANGED <<client, mgr, plog>>
    /\ UNCHANGED <<now, proxyFrame>>

\* A frame of the given type came out of `async for msg in self._ws`.
log_frame(l, type) ==
    [ l EXCEPT !.frames = @ + 1,
               !.unanswered = None,
               !.received = Append(@, type) ]

\* self._handler(msg.data) was called for the frame just received; the
\* call is not awaited, so it is over before the loop does anything else.
log_handler(l) ==
    [ l EXCEPT !.handled = Append(@, Len(l.received)), !.last_data = now ]

\* A PONG frame came out of the socket for client c.
log_pong(l, c) ==
    [ log_frame(l, "PONG") EXCEPT
          !.answered = IF c.waiting_for_pong THEN @ + 1 ELSE @ ]

\* The receive loop gets a PONG frame.
PongArrives ==
    /\ loops.receive.pc = "receiving"
    /\ client.ws_open
    /\ plog.frames < MaxFrames
    /\ client' = [ client EXCEPT !.last_message_time = now,
                                 !.last_pong_time = now,
                                 !.waiting_for_pong = FALSE,
                                 !.total_pongs_received = @ + 1 ]
    /\ plog' = log_pong(plog, client)
    /\ UNCHANGED <<mgr, loops, now, proxyFrame>>

\* The receive loop gets a PING frame: only the message time is updated.
PingArrives ==
    /\ loops.receive.pc = "receiving"
    /\ client.ws_open
    /\ plog.frames < MaxFrames
    /\ client' = [ client EXCEPT !.last_message_time = now ]
    /\ plog' = log_frame(plog, "PING")
    /\ UNCHANGED <<mgr, loops, now, proxyFrame>>

\* The types of the frames that carry data.
DataFrames == {"BINARY", "TEXT"}

\* The receive loop gets a BINARY or TEXT frame and hands it to the
\* handler, which returns.
DataArrives ==
    /\ loops.receive.pc = "receiving"
    /\ client.ws_open
    /\ plog.frames < MaxFrames
    /\ client' = [ client EXCEPT !.last_message_time = now,
                                 !.total_messages_received = @ + 1 ]
    /\ \E type \in DataFrames : plog' = log_handler(log_frame(plog, type))
    /\ UNCHANGED <<mgr, loops, now, proxyFrame>>

\* The receive loop gets a BINARY or TEXT frame and the handler raises:
\* the frame is not counted, `except Exception` ends the loop and the
\* finally block runs _handle_disconnect.
HandlerRaises ==
    /\ loops.receive.pc = "receiving"
    /\ client.ws_open
    /\ plog.frames < MaxFrames
    /\ client' = handle_disconnect([ client EXCEPT !.last_message_time = now ])
    /\ loops' = [ loops EXCEPT !.receive = LoopDone ]
    /\ \E type \in DataFrames : plog' = log_handler(log_frame(plog, type))
    /\ UNCHANGED <<mgr, now, proxyFrame>>

\* The transport closes or errors: the receive loop ends and its finally
\* block runs _handle_disconnect.
TransportCloses ==
    /\ loops.receive.pc = "receiving"
    /\ client.ws_open
    /\ client' = handle_disconnect([ client EXCEPT !.ws_open = FALSE ])
    /\ loops' = [ loops EXCEPT !.receive = LoopDone ]
    /\ plog' = [ plog EXCEPT !.unanswered = None, !.closed_mid_stream = TRUE ]
    /\ UNCHANGED <<mgr, now, proxyFrame>>

\* _cleanup closed the socket: the receive loop ends likewise.
ReceiveLoopEnds ==
    /\ loops.receive.pc = "receiving"
    /\ ~client.ws_open
    /\ client' = handle_disconnect(client)
    /\ loops' = [ loops EXCEPT !.receive = LoopDone ]
    /\ UNCHANGED <<mgr, plog, now, proxyFrame>>

\* The client's loops that have not ended.
ClientLoopNames == {"receive", "heartbeat", "health"}
running_loops(l) == { n \in ClientLoopNames : l[n].pc # "done" }

\* No task of a client runs and no _do_reconnect task exists.
NoLoops ==
    [ ClientLoops(0) EXCEPT !.receive = LoopDone,
                            !.heartbeat = LoopDone,
                            !.health = LoopDone ]

\* The tasks l with those of the client and of _do_reconnect as in cl; a
\* connect() call of the manager's owner, where l has one, stays as it is.
client_loops(l, cl) == [ n \in DOMAIN l |-> IF n \in DOMAIN cl THEN cl[n] ELSE l[n] ]

\* ProxyWebSocketClient.__init__ followed by a connect() that raised: the
\* session is closed and the state is FAILED.
failed_client(t) ==
    [ ProxyWebSocketClient(t) EXCEPT !.state = FAILED,
                                     !.is_active = FALSE,
                                     !.ws_open = FALSE,
                                     !.released = TRUE ]

\* _do_reconnect starts: it returns at once when reconnecting is off or
\* the cap is reached (is_reconnecting stays set), else sleeps its delay.
DoReconnect ==
    /\ loops.reconnect.pc = "start"
    /\ loops' = [ loops EXCEPT !.reconnect =
           IF ~mgr.should_reconnect \/ mgr.reconnect_attempts >= MAX_RECONNECT_ATTEMPTS
           THEN LoopDone
           ELSE Asleep(now + reconnect_delay(mgr.reconnect_attempts)) ]
    /\ UNCHANGED <<client, mgr, plog, now, proxyFrame>>

\* The delay is over, the old client is cleaned up and the new client's
\* connect() succeeds: a fresh client with its own loops, counter zeroed.
DoReconnectConnects ==
    /\ loops.reconnect.pc = "sleep"
    /\ now >= loops.reconnect.wake_at
    /\ client' = ProxyWebSocketClient(now)
    /\ loops' = client_loops(loops, ClientLoops(now))
    /\ mgr' = [ mgr EXCEPT !.reconnect_attempts = 0, !.is_reconnecting = FALSE ]
    /\ plog' = [ plog EXCEPT !.reconnects = @ + 1,
                             !.established = @ + 1,
                             !.unanswered = None,
                             !.closed_mid_stream = FALSE,
                             !.stale_loops = Cardinality(running_loops(loops)),
                             !.at_connect = Len(plog.handled),
                             !.last_data = now ]
    /\ UNCHANGED <<now, proxyFrame>>

\* The delay is over and the new client's connect() raises: the except
\* branch calls _handle_reconnect while is_reconnecting is still set, then
\* the finally block clears it.
DoReconnectFails ==
    /\ loops.reconnect.pc = "sleep"
    /\ now >= loops.reconnect.wake_at
    /\ client' = failed_client(now)
    /\ loops' = client_loops(loops, NoLoops)
    /\ mgr' = [ handle_reconnect(mgr) EXCEPT !.is_reconnecting = FALSE ]
    /\ plog' = [ plog EXCEPT !.unanswered = None,
                             !.closed_mid_stream = FALSE,
                             !.at_connect = Len(plog.handled),
                             !.last_data = now ]
    /\ UNCHANGED <<now, proxyFrame>>

\* The loops that are asleep, and those among them whose sleep is over.
Sleepers == { n \in DOMAIN loops : loops[n].pc \in {"sleep", "grace"} }
Ready ==
    \/ \E n \in Sleepers : loops[n].wake_at <= now
    \/ loops.reconnect.pc = "start"
    \/ loops.receive.pc = "receiving" /\ ~client.ws_open

\* Every task is suspended: time moves on to the earliest wake-up.
ProxyTimePasses ==
    /\ ~Ready
    /\ Sleepers # {}
    /\ LET next == CHOOSE d \in { loops[n].wake_at : n \in Sleepers } :
                       \A n \in Sleepers : d <= loops[n].wake_at
       IN  /\ next <= MaxProxyTime
           /\ now' = next
    /\ UNCHANGED <<client, mgr, loops, plog, proxyFrame>>

NextProxy ==
    \/ HeartbeatWake
    \/ HeartbeatPingFails
    \/ HealthWake
    \/ HealthPingFails
    \/ HealthGraceOver
    \/ PongArrives
    \/ PingArrives
    \/ DataArrives
    \/ HandlerRaises
    \/ TransportCloses
    \/ ReceiveLoopEnds
    \/ DoReconnect
    \/ DoReconnectConnects
    \/ DoReconnectFails
    \/ ProxyTimePasses

SpecProxy == InitProxy /\ [][NextProxy]_vars

\* -------------------------------------------------------- SpecHeartbeat
\* The proxy client on a transport whose only frames are pongs: the
\* server answers pings, or does not, and sends nothing else.
NextHeartbeat ==
    \/ HeartbeatWake
    \/ HeartbeatPingFails
    \/ HealthWake
    \/ HealthPingFails
    \/ HealthGraceOver
    \/ PongArrives
    \/ TransportCloses
    \/ ReceiveLoopEnds
    \/ DoReconnect
    \/ DoReconnectConnects
    \/ DoReconnectFails
    \/ ProxyTimePasses

SpecHeartbeat == InitProxy /\ [][NextHeartbeat]_vars

\* -------------------------------------------------------- SpecReconnect
\* One WebSocketReconnectManager from its construction: connect() and
\* disconnect() called by the owner, the reconnect signal of the client
\* and the _do_reconnect task. The client is taken by what the manager
\* sees of it: its connect() succeeds or raises, and a connected client
\* may call on_reconnect after its _cleanup; its loops are not stepped.
\* loops.connect is the owner's connect() call.
CallIdle == [ pc |-> "idle", wake_at |-> 0, at |-> 0 ]
AtLoop == [ pc |-> "loop", wake_at |-> 0, at |-> 0 ]
CallReturned == [ pc |-> "returned", wake_at |-> 0, at |-> 0 ]
CallRaised == [ pc |-> "raised", wake_at |-> 0, at |-> 0 ]

InitReconnect ==
    /\ client = [ ProxyWebSocketClient(0) EXCEPT !.state = DISCONNECTED,
                                                 !.is_active = FALSE,
                                                 !.ws_open = FALSE ]
    /\ mgr = WebSocketReconnectManager
    /\ loops = [ n \in DOMAIN NoLoops \cup {"connect"} |->
                   IF n = "connect" THEN CallIdle ELSE NoLoops[n] ]
    /\ plog = NoProxyLog
    /\ CoreIdle
    /\ DelayIdle
    /\ RegistryIdle
    /\ WsIdle

\* The owner calls connect(): self._should_reconnect = True, then the loop.
MgrConnect ==
    /\ loops.connect.pc \in {"idle", "returned", "raised"}
    /\ plog.connect_calls < MaxConnectCalls
    /\ mgr' = [ mgr EXCEPT !.should_reconnect = TRUE ]
    /\ loops' = [ loops EXCEPT !.connect = AtLoop ]
    /\ plog' = [ plog EXCEPT !.connect_calls = @ + 1 ]
    /\ UNCHANGED <<client, now, proxyFrame>>

\* `while self._should_reconnect:` is false: connect() returns.
MgrConnectLoopEnds ==
    /\ loops.connect.pc = "loop"
    /\ ~mgr.should_reconnect
    /\ loops' = [ loops EXCEPT !.connect = CallReturned ]
    /\ UNCHANGED <<client, mgr, plog, now, proxyFrame>>

\* A new client is made and its connect() succeeds: return.
MgrConnectSucceeds ==
    /\ loops.connect.pc = "loop"
    /\ mgr.should_reconnect
    /\ client' = ProxyWebSocketClient(now)
    /\ loops' = [ client_loops(loops, [ ClientLoops(now) EXCEPT
                      !.reconnect = loops.reconnect ])
                  EXCEPT !.connect = CallReturned ]
    /\ plog' = [ plog EXCEPT !.established = @ + 1 ]
    /\ UNCHANGED <<mgr, now, proxyFrame>>

\* connect(), `except Exception`: the attempt is counted; at the cap the
\* exception is raised again, below it the delay is slept.
connect_failed_attempt(m) == [ m EXCEPT !.reconnect_attempts = @ + 1 ]

\* A new client is made and its connect() raises.
MgrConnectFails ==
    /\ loops.connect.pc = "loop"
    /\ mgr.should_reconnect
    /\ client' = failed_client(now)
    /\ mgr' = connect_failed_attempt(mgr)
    /\ loops' = [ client_loops(loops, [ NoLoops EXCEPT
                      !.reconnect = loops.reconnect ])
                  EXCEPT !.connect =
                      IF mgr'.reconnect_attempts >= MAX_RECONNECT_ATTEMPTS
                      THEN CallRaised
                      ELSE Asleep(now + reconnect_delay(mgr'.reconnect_attempts)) ]
    /\ UNCHANGED <<plog, now, proxyFrame>>

\* asyncio.sleep(delay) of connect() is over: back to the loop condition.
MgrConnectWake ==
    /\ loops.connect.pc = "sleep"
    /\ now >= loops.connect.wake_at
    /\ loops' = [ loops EXCEPT !.connect = AtLoop ]
    /\ UNCHANGED <<client, mgr, plog, now, proxyFrame>>

\* A loop of the connected client calls _trigger_reconnect: _cleanup, then
\* on_reconnect, which is the manager's _handle_reconnect.
ClientSignals ==
    /\ is_active(client)
    /\ plog.ping_failures < MaxSignals
    /\ client' = handle_disconnect(cleanup(client))
    /\ mgr' = handle_reconnect(mgr)
    /\ loops' = client_loops(loops, triggered(
                    [ n \in DOMAIN NoLoops |-> loops[n] ], mgr, LoopDone, LoopDone))
    /\ plog' = [ plog EXCEPT !.ping_failures = @ + 1 ]
    /\ UNCHANGED <<now, proxyFrame>>

\* ProxyWebSocketClient.disconnect: the state, then _cleanup.
client_disconnect(c) == [ cleanup(c) EXCEPT !.state = DISCONNECTED ]

\* The owner calls disconnect(): self._should_reconnect = False and the
\* client is disconnected; its tasks end.
MgrDisconnect ==
    /\ mgr.should_reconnect
    /\ plog.connect_calls > 0
    /\ mgr' = [ mgr EXCEPT !.should_reconnect = FALSE ]
    /\ client' = client_disconnect(client)
    /\ loops' = client_loops(loops, [ NoLoops EXCEPT !.reconnect = loops.reconnect ])
    /\ UNCHANGED <<plog, now, proxyFrame>>

\* The calls and tasks of the manager that are asleep.
MgrSleepers == { n \in {"connect", "reconnect"} : loops[n].pc = "sleep" }

\* Nothing of the manager can run: time moves on to its earliest wake-up.
ReconnectTimePasses ==
    /\ MgrSleepers # {}
    /\ \A n \in MgrSleepers : loops[n].wake_at > now
    /\ loops.reconnect.pc # "start"
    /\ loops.connect.pc # "loop"
    /\ now' = CHOOSE d \in { loops[n].wake_at : n \in MgrSleepers } :
                  \A n \in MgrSleepers : d <= loops[n].wake_at
    /\ UNCHANGED <<client, mgr, loops, plog, proxyFrame>>

NextReconnect ==
    \/ MgrConnect
    \/ MgrConnectLoopEnds
    \/ MgrConnectSucceeds
    \/ MgrConnectFails
    \/ MgrConnectWake
    \/ ClientSignals
    \/ MgrDisconnect
    \/ DoReconnect
    \/ DoReconnectConnects
    \/ DoReconnectFails
    \/ ReconnectTimePasses

SpecReconnect == InitReconnect /\ [][NextReconnect]_vars

\* ------------------------------------------------------------ Spec
Init ==
    /\ \E th \in 1..MaxThreshold, tmo \in 1..MaxTimeout :
            cb = CircuitBreaker(th, tmo)
    /\ now = 0
    /\ history = <<>>
    /\ last_call = NoCall
    /\ attached = TRUE
    /\ max_attempts = RetryPolicy.max_attempts
    /\ task = [t \in {"t1"} |-> NewCall]
    /\ ext_calls = 0
    /\ LaterIdle

CanExecute ==
    /\ Len(history) < MaxCalls
    /\ cb' = can_execute(cb, now)
    /\ history' = Append(history, Call("can_execute", can_execute_ret(cb, now)))
    /\ last_call' = Call("can_execute", can_execute_ret(cb, now))
    /\ UNCHANGED <<now, retryVars, laterVars>>

RecordSuccess ==
    /\ Len(history) < MaxCalls
    /\ cb' = record_success(cb, now)
    /\ history' = Append(history, Call("record_success", TRUE))
    /\ last_call' = Call("record_success", TRUE)
    /\ UNCHANGED <<now, retryVars, laterVars>>

RecordFailure ==
    /\ Len(history) < MaxCalls
    /\ cb' = record_failure(cb, now)
    /\ history' = Append(history, Call("record_failure", TRUE))
    /\ last_call' = Call("record_failure", TRUE)
    /\ UNCHANGED <<now, retryVars, laterVars>>

Reset ==
    /\ Len(history) < MaxCalls
    /\ cb' = reset(cb)
    /\ history' = Append(history, Call("reset", TRUE))
    /\ last_call' = Call("reset", TRUE)
    /\ UNCHANGED <<now, retryVars, laterVars>>

Next ==
    \/ Tick
    \/ CanExecute
    \/ RecordSuccess
    \/ RecordFailure
    \/ Reset

Spec == Init /\ [][Next]_vars

\* ------------------------------------------------- reading `history`
Last(h) == h[Len(h)]

\* The step appends one call of `op` to the history.
Called(op) ==
    /\ Len(history') = Len(history) + 1
    /\ Last(history').op = op

OnlyFailures(h, n) ==
    /\ Len(h) >= n
    /\ \A i \in 1..n : h[i].op = "record_failure"

\* Calls a..b hold at least n record_failure calls and no call that zeroes
\* the count: n consecutive failures.
FailureRun(h, a, b, n) ==
    /\ \A k \in a..b : h[k].op \notin {"record_success", "reset"}
    /\ Cardinality({k \in a..b : h[k].op = "record_failure"}) >= n

\* Index of the last record_success / record_failure call, 0 if none.
LastRecord(h) ==
    LET R == {k \in 1..Len(h) : h[k].op \in {"record_success", "record_failure"}}
    IN  IF R = {} THEN 0 ELSE CHOOSE k \in R : \A m \in R : m <= k

\* can_execute calls that returned true since the last recorded outcome.
AdmittedSinceLastRecord(h) ==
    Cardinality({k \in (LastRecord(h) + 1)..Len(h) :
                    h[k].op = "can_execute" /\ h[k].ret})

\* ------------------------------------------------------------ claims

\* C1: from a fresh Closed breaker, exactly failure_threshold consecutive
\* record_failure calls leave it Open, and a can_execute made right after,
\* before the open timeout has elapsed, returns false.
C1_OpensAtThreshold ==
    /\ [](Len(history) = cb.failure_threshold
            /\ OnlyFailures(history, cb.failure_threshold)
          => cb.state = OPEN)
    /\ [][ ( /\ Len(history) = cb.failure_threshold
             /\ OnlyFailures(history, cb.failure_threshold)
             /\ now - cb.last_failure_time <= cb.timeout
             /\ Called("can_execute") )
           => ~Last(history').ret ]_vars

C1_Witness ==
    /\ Len(history) = cb.failure_threshold + 1
    /\ OnlyFailures(history, cb.failure_threshold)
    /\ cb.failure_threshold = 3
    /\ Last(history).op = "can_execute"
    /\ ~Last(history).ret
    /\ cb.state = OPEN

\* C2: from a fresh Closed breaker, failure_threshold-1 record_failure
\* calls followed by one record_success: the breaker is Closed after every
\* call of the sequence and failure_count is 0 at its end.
C2_BelowThresholdStaysClosed ==
    LET n == cb.failure_threshold - 1 IN
    /\ (Len(history) <= n /\ OnlyFailures(history, Len(history)))
            => cb.state = CLOSED
    /\ ( /\ Len(history) = n + 1
         /\ OnlyFailures(history, n)
         /\ Last(history).op = "record_success" )
            => (cb.state = CLOSED /\ cb.failure_count = 0)

C2_Witness ==
    /\ cb.failure_threshold = 3
    /\ Len(history) = 3
    /\ OnlyFailures(history, 2)
    /\ Last(history).op = "record_success"
    /\ cb.failure_count = 0

\* C3: Open and more than `timeout` since last_failure_time: the next
\* can_execute returns true and moves to HalfOpen; a record_failure in
\* HalfOpen moves back to Open, whatever failure_count is.
C3_HalfOpenTrial ==
    /\ [][ ( /\ cb.state = OPEN
             /\ cb.last_failure_time # None
             /\ now - cb.last_failure_time > cb.timeout
             /\ Called("can_execute") )
           => (Last(history').ret /\ cb'.state = HALF_OPEN) ]_vars
    /\ [][ (cb.state = HALF_OPEN /\ Called("record_failure"))
           => cb'.state = OPEN ]_vars

\* A failure in HalfOpen reopened the breaker below the threshold.
C3_Witness ==
    /\ Len(history) >= 2
    /\ Last(history).op = "record_failure"
    /\ Last(history).pre = HALF_OPEN
    /\ history[Len(history) - 1].op = "can_execute"
    /\ history[Len(history) - 1].pre = OPEN
    /\ history[Len(history) - 1].ret
    /\ cb.state = OPEN
    /\ cb.failure_count < cb.failure_threshold

\* C4: a record_success in HalfOpen closes the breaker with failure_count 0,
\* and from then on every can_execute returns true until failure_threshold
\* consecutive failures have been recorded.
C4_RecoveryCloses ==
    \A i \in 1..Len(history) :
        (history[i].op = "record_success" /\ history[i].pre = HALF_OPEN) =>
            /\ i = Len(history) => (cb.state = CLOSED /\ cb.failure_count = 0)
            /\ i < Len(history) => history[i + 1].pre = CLOSED
            /\ \A j \in (i + 1)..Len(history) :
                  ( /\ history[j].op = "can_execute"
                    /\ ~\E a, b \in (i + 1)..(j - 1) :
                           FailureRun(history, a, b, cb.failure_threshold) )
                  => history[j].ret

\* The whole cycle Closed -> Open -> HalfOpen -> Closed, then admitted again.
C4_Witness ==
    /\ cb.failure_threshold = 2
    /\ Len(history) = 5
    /\ OnlyFailures(history, 2)
    /\ history[3].op = "can_execute" /\ history[3].pre = OPEN /\ history[3].ret
    /\ history[4].op = "record_success" /\ history[4].pre = HALF_OPEN
    /\ history[5].op = "can_execute" /\ history[5].pre = CLOSED /\ history[5].ret

\* C5: Open and not more than `timeout` since last_failure_time: every
\* can_execute returns false and leaves state and failure_count unchanged.
C5_OpenRejects ==
    [][ ( /\ cb.state = OPEN
          /\ cb.last_failure_time # None
          /\ now - cb.last_failure_time <= cb.timeout
          /\ Called("can_execute") )
        => ( /\ ~Last(history').ret
             /\ cb'.state = OPEN
             /\ cb'.failure_count = cb.failure_count ) ]_vars

\* Two callers in a row were both turned away, at the very edge of the timeout.
C5_Witness ==
    /\ Len(history) >= 2
    /\ Last(history).op = "can_execute"
    /\ Last(history).pre = OPEN
    /\ ~Last(history).ret
    /\ history[Len(history) - 1].op = "can_execute"
    /\ ~history[Len(history) - 1].ret
    /\ cb.state = OPEN
    /\ now - cb.last_failure_time = cb.timeout

\* C6: while HalfOpen, at most one can_execute has returned true since the
\* Open -> HalfOpen transition and the last recorded outcome.
C6_SingleTrial ==
    cb.state = HALF_OPEN => AdmittedSinceLastRecord(history) <= 1

\* C7 as stated: every transition into Open happens at a moment when
\* failure_count >= failure_threshold.
C7_OpenOnlyAtThreshold ==
    [][ (cb.state # OPEN /\ cb'.state = OPEN)
        => cb'.failure_count >= cb'.failure_threshold ]_vars

\* C7, amended: every transition into Open is made by record_failure; from
\* Closed it happens with failure_count >= failure_threshold, from HalfOpen
\* on any failure, whatever failure_count is.
C7_OpenTransitions ==
    [][ (cb.state # OPEN /\ cb'.state = OPEN)
        => /\ last_call'.op = "record_failure"
           /\ \/ cb.state = HALF_OPEN
              \/ /\ cb.state = CLOSED
                 /\ cb'.failure_count >= cb'.failure_threshold ]_vars

\* The retry manager's third failure reopened a HalfOpen breaker whose count
\* a success recorded while Open had zeroed.
C7_Witness ==
    /\ cb.state = OPEN
    /\ last_call.op = "record_failure"
    /\ last_call.pre = HALF_OPEN
    /\ cb.failure_count < cb.failure_threshold
    /\ task["t1"].pc = "raised"
    /\ task["t1"].rec_failure = cb.total_failures

\* C8: a breaker is attached and can_execute returned false at the start of
\* execute_with_retry: the call has raised, the operation was never
\* invoked, nothing was slept and no outcome was recorded on the breaker.
C8_RefusedCallFailsAtOnce ==
    \A t \in DOMAIN task :
        (task[t].pc # "idle" /\ ~task[t].admitted) =>
            /\ task[t].pc = "raised"
            /\ task[t].result = CircuitOpenError(t)
            /\ task[t].calls = 0
            /\ task[t].outcomes = <<>>
            /\ task[t].sleeps = <<>>
            /\ task[t].rec_success = 0
            /\ task[t].rec_failure = 0

C8_Witness ==
    /\ attached
    /\ task["t1"].pc = "raised"
    /\ ~task["t1"].admitted
    /\ last_call = [ op |-> "can_execute", ret |-> FALSE, pre |-> OPEN ]
    /\ cb.state = OPEN

\* C9: for every max_attempts >= 1, when the first invocation of an admitted
\* call raises an error that is not retryable, the call has ended: one
\* invocation, no sleep, and that very error raised to the caller.
C9_NonRetryableFailsOnce ==
    \A t \in DOMAIN task :
        ( /\ Len(task[t].outcomes) >= 1
          /\ task[t].outcomes[1] # "ok"
          /\ task[t].outcomes[1] \notin retryable_exceptions ) =>
            /\ task[t].pc = "raised"
            /\ task[t].calls = 1
            /\ task[t].sleeps = <<>>
            /\ task[t].result = Error(task[t].outcomes[1], t, 1)

C9_Witness ==
    /\ max_attempts = 3
    /\ task["t1"].outcomes = <<"ValueError">>
    /\ task["t1"].pc = "raised"
    /\ task["t1"].result.kind = "ValueError"

\* C10: a breaker is attached and the operation raises an error that is not
\* retryable: the breaker's total_failures and failure_count each grow by
\* exactly 1 as the error propagates.
C10_NonRetryableRecorded ==
    [][ \A t \in DOMAIN task :
          ( /\ attached
            /\ task[t].pc = "awaiting"
            /\ task'[t].pc = "raised"
            /\ Last(task'[t].outcomes) \notin retryable_exceptions )
          => /\ cb'.total_failures = cb.total_failures + 1
             /\ cb'.failure_count = cb.failure_count + 1 ]_vars

\* ------------------------------------------------- reading `outcomes`
\* The first n outcomes are failures with a retryable error.
RetryableFailures(o, n) ==
    /\ Len(o) >= n
    /\ \A i \in 1..n : o[i] \in retryable_exceptions

\* How many attempts failed with a retryable error.
FailedAttempts(o) ==
    Cardinality({ i \in 1..Len(o) : o[i] \in retryable_exceptions })

\* C11: for every k with 0 <= k < max_attempts, an admitted call whose first
\* k invocations raised a retryable error goes on to invocation k+1, and
\* when that invocation succeeds the call has made exactly k+1 invocations
\* and returns its value.
C11_FailuresThenSuccess ==
    \A t \in DOMAIN task :
        LET c == task[t]
            n == Len(c.outcomes)
        IN  /\ ( /\ c.admitted
                 /\ n < max_attempts
                 /\ RetryableFailures(c.outcomes, n) ) =>
                   \/ c.pc = "sleeping" /\ c.calls = n
                   \/ c.pc = "awaiting" /\ c.calls = n + 1
            /\ ( /\ n >= 1
                 /\ c.outcomes[n] = "ok" ) =>
                   /\ n <= max_attempts
                   /\ RetryableFailures(c.outcomes, n - 1)
                   /\ c.pc = "returned"
                   /\ c.calls = n
                   /\ c.result = Value(t, n)

C11_Witness ==
    /\ max_attempts = 3
    /\ task["t1"].outcomes = <<"TimeoutError", "ConnectionError", "ok">>
    /\ task["t1"].pc = "returned"
    /\ task["t1"].calls = 3
    /\ task["t1"].result = Value("t1", 3)

\* C12: when every attempt of an admitted call raised a retryable error, the
\* operation was invoked exactly max_attempts times and the call has raised
\* the error of the last attempt; no value is returned.
C12_AllAttemptsFail ==
    \A t \in DOMAIN task :
        LET c == task[t]
        IN  ( /\ c.admitted
              /\ RetryableFailures(c.outcomes, max_attempts) ) =>
                /\ Len(c.outcomes) = max_attempts
                /\ c.calls = max_attempts
                /\ c.pc = "raised"
                /\ c.result = Error(c.outcomes[max_attempts], t, max_attempts)

C12_Witness ==
    /\ max_attempts = 3
    /\ task["t1"].outcomes = <<"TimeoutError", "TimeoutError", "ConnectionError">>
    /\ task["t1"].pc = "raised"
    /\ task["t1"].result = Error("ConnectionError", "t1", 3)

\* C13: within one call the sleeps are get_delay(0), get_delay(1), ... in
\* this order, one per attempt that failed with a retryable error and was
\* not the last permitted one: min(n, max_attempts - 1) sleeps after n such
\* failures; an attempt is under way only after all earlier attempts failed
\* with a retryable error and the sleep before it is over.
C13_SleepsBetweenAttempts ==
    \A t \in DOMAIN task :
        LET c == task[t]
            m == Min(FailedAttempts(c.outcomes), max_attempts - 1)
        IN  /\ Len(c.sleeps) = m
            /\ \A i \in 1..m : c.sleeps[i] = get_delay(i - 1)
            /\ c.pc = "awaiting" =>
                  /\ c.calls = Len(c.sleeps) + 1
                  /\ c.attempt = Len(c.sleeps)
                  /\ Len(c.outcomes) = c.calls - 1
                  /\ RetryableFailures(c.outcomes, c.calls - 1)
                  /\ (c.calls > 1 => now >= c.wake_at)
            /\ (c.pc \in {"returned", "raised"} /\ c.admitted) =>
                  c.calls = Len(c.sleeps) + 1

C13_Witness ==
    /\ max_attempts = 3
    /\ task["t1"].outcomes = <<"ConnectionError", "TimeoutError", "TimeoutError">>
    /\ task["t1"].sleeps = <<1, 2>>
    /\ task["t1"].pc = "raised"

\* ---------------------------------------------------- reading `delays`
\* delays[i + 1] is get_delay(i): the delays computed so far never shrink
\* from one attempt to the next, never exceed max_delay, and start at
\* initial_delay.
DelayShape ==
    /\ \A i \in 1..Len(delays) : delays[i] <= policy.max_delay
    /\ \A i \in 1..Len(delays) - 1 : delays[i] <= delays[i + 1]
    /\ Len(delays) >= 1 => delays[1] = policy.initial_delay

\* C14 as stated: for every policy with initial_delay <= max_delay and
\* exponential_base > 1, get_delay is non-decreasing in the attempt, never
\* exceeds max_delay, and get_delay(0) = initial_delay.
C14_DelayShapeAnySign ==
    (policy.initial_delay <= policy.max_delay /\ policy.exponential_base > 1)
        => DelayShape

\* C14, amended: the same for every policy with
\* 0 <= initial_delay <= max_delay and exponential_base > 1.
C14_DelayShape ==
    ( /\ 0 <= policy.initial_delay
      /\ policy.initial_delay <= policy.max_delay
      /\ policy.exponential_base > 1 ) => DelayShape

\* A policy whose delays grow and then sit at the cap.
C14_Witness ==
    /\ policy.initial_delay = 1
    /\ policy.max_delay = 3
    /\ policy.exponential_base = 2
    /\ delays = <<1, 2, 3, 3>>

\* --------------------------------------------------- reading `handles`
\* Every lookup of a name returned the object the registry holds for it.
SameNameSameBreaker ==
    \A h \in handles :
        /\ h.name \in DOMAIN CIRCUIT_BREAKERS
        /\ h.obj = CIRCUIT_BREAKERS[h.name]
        /\ \A g \in handles : g.name = h.name => g.obj = h.obj

\* A call made through a handle of one name leaves the breaker of every
\* other name as it was.
OtherNamesUntouched ==
    reg_ops' = reg_ops + 1 =>
        \A m \in DOMAIN CIRCUIT_BREAKERS :
            m # reg_last'.name =>
                /\ m \in DOMAIN CIRCUIT_BREAKERS'
                /\ heap'[CIRCUIT_BREAKERS'[m]] = heap[CIRCUIT_BREAKERS[m]]

\* C15: all lookups of a name, by get_circuit_breaker or get_retry_manager,
\* yield the one breaker of that name, and a can_execute, record_success,
\* record_failure or reset on the breaker of one name changes nothing of
\* the breaker of any other name.
C15_RegistryIsolation ==
    /\ []SameNameSameBreaker
    /\ [][OtherNamesUntouched]_vars

\* A failure recorded through the manager's breaker is seen through the
\* breaker looked up under the same name, and not under another name.
C15_Witness ==
    /\ [ via |-> "get_retry_manager", name |-> "clob_api", obj |-> 5 ] \in handles
    /\ [ via |-> "get_circuit_breaker", name |-> "clob_api", obj |-> 5 ] \in handles
    /\ [ via |-> "get_circuit_breaker", name |-> "redis", obj |-> 3 ] \in handles
    /\ reg_last = [ name |-> "clob_api", op |-> "record_failure" ]
    /\ heap[5].failure_count = 2
    /\ heap[3].failure_count = 1

\* ------------------------------------------------------ reading `wslog`
\* The stream task is inside a connect() call or at its return.
InConnectCall == stream.pc \in {"connect_retry", "on_connected", "connect_returned"}

\* C16: when the breaker's can_execute returned false to connect(), the
\* call has returned False at once with the state CIRCUIT_OPEN, never
\* having set CONNECTING, and connect_func was not invoked during it.
C16_RefusedConnect ==
    ( /\ InConnectCall
      /\ wslog.connects > 0
      /\ ~wslog.at_connect.can_execute ) =>
        /\ stream.pc = "connect_returned"
        /\ ~stream.connect_ret
        /\ ws.state = CIRCUIT_OPEN
        /\ ~wslog.at_connect.connecting
        /\ ConnectFuncCalls = wslog.at_connect.func_calls

C16_Witness ==
    /\ stream.pc = "connect_returned"
    /\ ~wslog.at_connect.can_execute
    /\ cb.state = OPEN
    /\ ws.state = CIRCUIT_OPEN
    /\ wslog.connects = 3
    /\ wslog.func_calls = 6

\* C17: when connect() returns True, the call had set CONNECTING, the
\* state is CONNECTED, reconnect_attempts is 0, total_connections is one
\* more than when the call began, last_message_time is stamped, and
\* on_connected, when set, was invoked exactly once during the call.
C17_ConnectReturnsTrue ==
    (stream.pc = "connect_returned" /\ stream.connect_ret) =>
        /\ wslog.at_connect.connecting
        /\ ws.state = CONNECTED
        /\ ws.reconnect_attempts = 0
        /\ ws.total_connections = wslog.at_connect.total_connections + 1
        /\ ws.last_message_time # None
        /\ ws.last_message_time <= now
        /\ wslog.on_connected_calls =
              wslog.at_connect.on_connected_calls + (IF ws.on_connected THEN 1 ELSE 0)

\* A connect() that succeeds after a failed one and a backoff.
C17_Witness ==
    /\ stream.pc = "connect_returned"
    /\ stream.connect_ret
    /\ ws.on_connected
    /\ wslog.connects = 2
    /\ wslog.on_connected_calls = 1
    /\ ws.total_connections = 1
    /\ ws.total_errors = 1

\* C18: once _backoff_and_retry has set the state to FAILED at the cap,
\* the stream loop leaves the state FAILED and makes no further connect()
\* call and no further connect_func invocation (a disconnect() by the
\* owner aside).
C18_FailedIsTerminal ==
    [][ ( /\ wslog.cap_failed > 0
          /\ ws'.total_disconnections = ws.total_disconnections ) =>
            /\ ws'.state = FAILED
            /\ wslog'.connects = wslog.connects
            /\ ConnectFuncCalls' = ConnectFuncCalls ]_vars

\* C19: when the state has become FAILED because the cap was hit and
\* on_error is set, on_error has been invoked.
C19_ErrorHookOnTerminalFailure ==
    (wslog.cap_failed > 0 /\ ws.on_error) => wslog.on_error_calls > 0

\* ------------------------------------------------------- reading `plog`
\* C20: with the default heartbeat_interval and heartbeat_timeout, once a
\* ping has gone unanswered by any frame or pong for longer than
\* heartbeat_timeout, and the heartbeat loop has had a wake-up since (one
\* more heartbeat_interval), the heartbeat loop has triggered exactly one
\* reconnect for the timeout and the manager's attempt counter is one more
\* than it was at the ping.
C20_HeartbeatTimeoutReconnects ==
    ( /\ plog.unanswered # None
      /\ now - plog.unanswered > HEARTBEAT_TIMEOUT + HEARTBEAT_INTERVAL ) =>
        /\ plog.hb_timeouts = 1
        /\ mgr.reconnect_attempts = plog.attempts_then + 1

\* ----------------------------------------------------- reading `monitor`
\* The stream task, the only caller of connect(), has not ended.
StreamTaskAlive == stream.pc \notin {"cancelled", "crashed"}

\* C21: once the health monitor has found a connected manager stale and its
\* forced disconnect() is over, a new connect() attempt has been made or
\* can still be made: the task that runs the reconnect loop is alive.
C21_StaleForcesReconnect ==
    ( /\ monitor.forced > 0
      /\ monitor.disc["health"].pc \in {"returned", "raised"} ) =>
        \/ wslog.connects > monitor.connects_then
        \/ StreamTaskAlive

\* The owner's disconnect() call is over.
OwnerDisconnectOver == monitor.disc["owner"].pc \in {"returned", "raised"}

\* What holds when the owner's disconnect() is over.
Disconnected ==
    /\ ws.state = DISCONNECTED
    /\ \A i \in DOMAIN TaskOrder :
          ~task_exists(Bundle, TaskOrder[i]) \/ task_done(Bundle, TaskOrder[i])
    /\ monitor.on_disconnected => monitor.hook_calls["owner"] = 1
    /\ cb = monitor.cb_then

\* C24: a disconnect() called by the owner, in whatever state, ends with
\* state DISCONNECTED, every task that was created over, on_disconnected
\* (when set) invoked exactly once by the call, and the breaker as it was
\* when the call began.
C24_OwnerDisconnect ==
    [][ (~OwnerDisconnectOver /\ OwnerDisconnectOver') => Disconnected' ]_vars

\* C22: when the receive loop of the manager's client has ended because
\* the transport closed or failed mid-stream, the transport handle and the
\* session are released and a reconnect is under way (the _do_reconnect
\* task runs) unless the attempt cap is reached.
C22_TransportCloseReconnects ==
    plog.closed_mid_stream =>
        /\ client.released
        /\ \/ loops.reconnect.pc # "done"
           \/ mgr.reconnect_attempts >= MAX_RECONNECT_ATTEMPTS

\* C23: when the client's transport handle has been released by a
\* teardown, its receive, heartbeat and health-check loops are all over;
\* and the manager never made a new connection while a loop of the
\* previous client was still running.
C23_LoopsEndBeforeRelease ==
    /\ client.released => running_loops(loops) = {}
    /\ plog.stale_loops = 0

\* The positions in `received` of the frames that carry data.
DataPositions == { i \in DOMAIN plog.received : plog.received[i] \in DataFrames }

\* C25: the handler invocations are, in receive order, exactly the data
\* frames received (each once, no control frame among them), and the
\* client's total_messages_received is the number of handler invocations
\* made for it.
C25_HandlerGetsDataFramesInOrder ==
    /\ \A i \in DOMAIN plog.handled : \A j \in DOMAIN plog.handled :
          i < j => plog.handled[i] < plog.handled[j]
    /\ { plog.handled[i] : i \in DOMAIN plog.handled } = DataPositions
    /\ client.total_messages_received = Len(plog.handled) - plog.at_connect

\* C26: no step of the websocket manager calls reset on the breaker, and
\* an Open breaker leaves Open only in a can_execute call (its timeout
\* check).
C26_ResetNeverAutomatic ==
    [][ /\ last_call'.op # "reset"
        /\ (cb.state = OPEN /\ cb'.state # OPEN) =>
               last_call'.op = "can_execute" ]_vars

\* The can_execute calls made since construction.
CanExecuteCalls == { i \in DOMAIN history : history[i].op = "can_execute" }

\* C27: total_requests is the number of can_execute calls made so far,
\* whatever state each found and whatever it returned; record_success,
\* record_failure and reset leave it alone.
C27_TotalRequestsCountsCanExecute ==
    cb.total_requests = Cardinality(CanExecuteCalls)

\* A refused call in Open, a call in HalfOpen and a reset have been made.
C27_Witness ==
    /\ \E i \in CanExecuteCalls : history[i].pre = OPEN /\ ~history[i].ret
    /\ \E i \in CanExecuteCalls : history[i].pre = HALF_OPEN
    /\ \E i \in DOMAIN history : history[i].op = "reset"
    /\ \E i \in DOMAIN history : history[i].op = "record_failure"

\* Every call has finished, by returning or by raising.
AllFinished == \A t \in DOMAIN task : task[t].pc \in {"returned", "raised"}

RECURSIVE SumOver(_, _)
SumOver(f, S) ==
    IF S = {} THEN 0
    ELSE LET x == CHOOSE y \in S : TRUE IN f[x] + SumOver(f, S \ {x})

\* C28: when all the concurrent calls have finished, total_failures is the
\* number of attempts that raised a retryable error and total_successes
\* the number of calls that returned a value.
C28_NoCounterUpdateLost ==
    AllFinished =>
        /\ cb.total_failures =
               SumOver([t \in DOMAIN task |-> FailedAttempts(task[t].outcomes)],
                       DOMAIN task)
        /\ cb.total_successes =
               Cardinality({ t \in DOMAIN task : task[t].pc = "returned" })

\* Both calls were admitted by a breaker of threshold 1 and finished
\* without time passing, one on a retryable failure that opened the
\* breaker and the other by returning: the second was under way before
\* the first one's failure was recorded.
C28_Witness ==
    /\ AllFinished
    /\ DOMAIN task = Tasks
    /\ cb.failure_threshold = 1
    /\ now = 0
    /\ \A t \in Tasks : task[t].admitted
    /\ FailedAttempts(task["t1"].outcomes) = 1
    /\ task["t2"].pc = "returned"
    /\ cb.total_failures = 1

\* min(WS_INITIAL_BACKOFF * 2^(k-1), WS_MAX_BACKOFF)
ExpectedBackoff(k) == Min(WS_INITIAL_BACKOFF * Pow(2, k - 1), WS_MAX_BACKOFF)

\* C29: the step that raises reconnect_attempts to k puts the stream task
\* to sleep for min(WS_INITIAL_BACKOFF * 2^(k-1), WS_MAX_BACKOFF) seconds,
\* with 1 <= k <= WS_MAX_RECONNECT_ATTEMPTS; that is at most WS_MAX_BACKOFF
\* and at least the sleep of attempt k-1.
C29_BackoffSchedule ==
    [][ ws'.reconnect_attempts = ws.reconnect_attempts + 1 =>
          LET k == ws'.reconnect_attempts
              sleep == stream'.wake_at - now'
          IN  /\ stream'.pc = "backoff_sleep"
              /\ 1 <= k /\ k <= ws.WS_MAX_RECONNECT_ATTEMPTS
              /\ sleep = ExpectedBackoff(k)
              /\ sleep <= WS_MAX_BACKOFF
              /\ k > 1 => sleep >= ExpectedBackoff(k - 1) ]_vars

\* The tenth consecutive attempt sleeps for the capped backoff.
C29_Witness ==
    /\ stream.pc = "backoff_sleep"
    /\ ws.reconnect_attempts = WS_MAX_RECONNECT_ATTEMPTS
    /\ stream.wake_at - now = WS_MAX_BACKOFF
    /\ WS_INITIAL_BACKOFF * Pow(2, ws.reconnect_attempts - 1) > WS_MAX_BACKOFF

\* The manager's first connect() call has returned, no hook having run.
FirstConnectOver ==
    /\ wslog.connects = 1
    /\ stream.pc = "connect_returned"
    /\ wslog.on_connected_calls = 0

\* C30: when the first connect() call on a fresh breaker has returned, a
\* successful one has raised total_successes and total_requests to
\* exactly 1, and a failed one that invoked connect_func n times has
\* raised total_failures and failure_count to exactly n.
C30_ConnectRecordsOnce ==
    FirstConnectOver =>
        /\ stream.connect_ret =>
               /\ cb.total_successes = 1
               /\ cb.total_requests = 1
        /\ (~stream.connect_ret /\ wslog.func_calls > 0) =>
               /\ cb.total_failures = wslog.func_calls
               /\ cb.failure_count = wslog.func_calls

\* The health-check loop of the client woke up and went back to its
\* half-timeout sleep without a ping: it did not find the connection idle.
HealthFoundNotIdle ==
    /\ loops.health.pc = "sleep"
    /\ loops'.health.pc = "sleep"
    /\ loops'.health # loops.health
    /\ plog'.reconnects = plog.reconnects
    /\ plog'.idle_timeouts = plog.idle_timeouts

\* C31: only data frames reset the idle timer: an active client whose
\* latest data frame is more than idle_timeout old is found idle by the
\* health-check loop, whatever control frames arrived meanwhile.
C31_OnlyDataResetsIdleTimer ==
    [][ (HealthFoundNotIdle /\ is_active(client)) =>
            now - plog.last_data <= IDLE_TIMEOUT ]_vars

ReconnectAttemptFailed == client.state = FAILED

\* C32: after a reconnect attempt of _do_reconnect failed, with the
\* attempt counter below the cap and disconnect not requested, another
\* attempt is on its way: a _do_reconnect task exists that has not ended.
C32_FailedReconnectIsRetried ==
    ( /\ ReconnectAttemptFailed
      /\ mgr.should_reconnect
      /\ mgr.reconnect_attempts < MAX_RECONNECT_ATTEMPTS ) =>
          loops.reconnect.pc # "done"

\* C36: no connection is established by the manager while disconnect()
\* was the owner's latest call: every step that establishes one finds
\* should_reconnect set.
C36_NoConnectionAfterDisconnect ==
    [][ plog'.established > plog.established => mgr.should_reconnect ]_vars

\* C37: the manager's attempt counter never exceeds the cap.
C37_AttemptsWithinCap == mgr.reconnect_attempts <= MAX_RECONNECT_ATTEMPTS

\* C33: a call with a breaker attached never invokes the operation while
\* the breaker is Open, on its first attempt or on a later one.
C33_NoInvocationWhileOpen ==
    [][ \A t \in DOMAIN task :
          ( /\ attached
            /\ t \in DOMAIN task'
            /\ task'[t].calls = task[t].calls + 1 )
          => cb'.state # OPEN ]_vars

\* C34: when a call with a breaker attached has returned a value and no
\* other caller has used the breaker, the breaker is Closed with
\* failure_count 0.
C34_SuccessLeavesClosed ==
    \A t \in DOMAIN task :
        ( /\ attached
          /\ ext_calls = 0
          /\ task[t].pc = "returned" )
        => /\ cb.state = CLOSED
           /\ cb.failure_count = 0

\* The state changes of a breaker, each with the call that makes it.
AllowedTransitions ==
    { <<CLOSED, OPEN, "record_failure">>,
      <<OPEN, HALF_OPEN, "can_execute">>,
      <<HALF_OPEN, CLOSED, "record_success">>,
      <<HALF_OPEN, OPEN, "record_failure">> }
        \cup { <<st, CLOSED, "reset">> : st \in CircuitState }

\* C35: every step that changes the breaker's state is one of the five
\* transitions, made by the call named for it.
C35_OnlyAllowedTransitions ==
    [][ cb'.state # cb.state =>
            <<cb.state, cb'.state, last_call'.op>> \in AllowedTransitions ]_vars

\* The breaker opened, went to HalfOpen in a can_execute call, was closed
\* by a success, opened again and was closed by a reset.
C35_Witness ==
    /\ \E i \in DOMAIN history :
          history[i].op = "can_execute" /\ history[i].pre = OPEN /\ history[i].ret
    /\ \E i \in DOMAIN history :
          history[i].op = "record_success" /\ history[i].pre = HALF_OPEN
    /\ \E i \in DOMAIN history :
          history[i].op = "reset" /\ history[i].pre = OPEN
    /\ cb.state = CLOSED

\* C38: the manager's state is FAILED only when reconnect_attempts has
\* reached the cap.
C38_FailedOnlyAtCap ==
    ws.state = FAILED => ws.reconnect_attempts >= ws.WS_MAX_RECONNECT_ATTEMPTS

====
